---- MODULE Spec2Model ----
\* Conversation intake state machine of the SaaS renewal chat endpoint
\* (src/src/app/api/chat/route.ts), with the regenerate endpoint
\* (src/src/app/api/chat/generate/route.ts) and the OAuth callback
\* (src/unnamed/part_004) as the other writers of the session record.
\* Spec is that state machine in a process where discovery registers no
\* benchmark; MergeSpec runs the merge step of a collect turn on raw
\* extractions together with benchmark discovery (src/src/lib/gemini.ts);
\* LimiterSpec runs the rate limiter under concurrent request handlers;
\* GenSpec runs one generateJson call against the model service; TurnSpec
\* runs chat turns of one client side by side on one session row, with
\* and without a store; DiscoverySpec runs ensureTool under concurrent
\* callers; PlansSpec runs the turns of a user settling the plans of the
\* stored items; WritersSpec interleaves the reads and the writes of the
\* writers of one session.
EXTENDS Integers, Sequences, FiniteSets, TLC

\* ---------------------------------------------------------------------
\* Strings.  Messages and tool names are TLA+ strings; the regular
\* expressions of the source are evaluated character by character.
\* ---------------------------------------------------------------------

UpperAlphabet == "ABCDEFGHIJKLMNOPQRSTUVWXYZ"
LowerAlphabet == "abcdefghijklmnopqrstuvwxyz"
DigitAlphabet == "0123456789_"

Ch(s, i) == SubSeq(s, i, i)

CharsOf(s) == {Ch(s, i) : i \in 1..Len(s)}

UpperChars == CharsOf(UpperAlphabet)
WordChars == CharsOf(UpperAlphabet) \cup CharsOf(LowerAlphabet) \cup CharsOf(DigitAlphabet)
SpaceChars == {" ", "\n", "\t"}

LowerOfUpper ==
  [c \in UpperChars |-> Ch(LowerAlphabet, CHOOSE i \in 1..26 : Ch(UpperAlphabet, i) = c)]

LowerChar(c) == IF c \in UpperChars THEN LowerOfUpper[c] ELSE c

\* String.prototype.toLowerCase
ToLower(s) ==
  LET f[i \in 0..Len(s)] == IF i = 0 THEN "" ELSE f[i - 1] \o LowerChar(Ch(s, i))
  IN f[Len(s)]

\* String.prototype.trim
Trim(s) ==
  LET nonSpace == {i \in 1..Len(s) : Ch(s, i) \notin SpaceChars}
      Min(S) == CHOOSE x \in S : \A y \in S : x <= y
      Max(S) == CHOOSE x \in S : \A y \in S : x >= y
  IN IF nonSpace = {} THEN "" ELSE SubSeq(s, Min(nonSpace), Max(nonSpace))

\* s.substring(i-1, i-1+len(w)) === w
MatchAt(s, w, i) ==
  /\ i >= 1
  /\ i + Len(w) - 1 <= Len(s)
  /\ SubSeq(s, i, i + Len(w) - 1) = w

\* String.prototype.includes
Includes(s, w) == \E i \in 1..(Len(s) + 1) : MatchAt(s, w, i)

IsWordAt(s, i) == i >= 1 /\ i <= Len(s) /\ Ch(s, i) \in WordChars

\* the regex assertion \b between the characters p and p+1 of s
Boundary(s, p) == IsWordAt(s, p) # IsWordAt(s, p + 1)

\* /\b(w1|w2|...)\b/.test(s)
HasWord(s, words) ==
  \E w \in words : \E i \in 1..Len(s) :
    MatchAt(s, w, i) /\ Boundary(s, i - 1) /\ Boundary(s, i + Len(w) - 1)

\* /^(w1|w2|...)\b/.test(s)
StartsWithWord(s, words) ==
  \E w \in words : MatchAt(s, w, 1) /\ Boundary(s, Len(w))

\* s.split(/\s+/).filter(Boolean).length
WordCount(s) ==
  Cardinality({i \in 1..Len(s) :
     Ch(s, i) \notin SpaceChars /\ (i = 1 \/ Ch(s, i - 1) \in SpaceChars)})

\* ---------------------------------------------------------------------
\* Inputs of the model
\* ---------------------------------------------------------------------

\* longest list of line items one extraction call returns in the model
MaxExtract == 1

\* the user messages a turn can carry
Messages ==
  {"yes", " Nope ", "correct", "business",
   "No, show what I have",
   "top tier for Slack. mid tier for Notion",
   "Pro for both"}

\* the user messages of the turns that settle plans
PlanMessages ==
  {"mid tier for Slack and Notion", "correct", "yes", "business",
   "Business+", "Notion: Business", " Nope "}

\* the line items the extraction collaborator can return; currency is
\* always present because lineItemSchema gives it a default
ExtractableItems ==
  {[tool |-> "slack", annualCost |-> 19000, currency |-> "USD"],
   [tool |-> "Slack", plan |-> "Business+", currency |-> "USD"],
   [tool |-> "Notion", annualCostPerSeat |-> 96, currency |-> "USD"],
   [tool |-> " N/A ", plan |-> "Pro", currency |-> "USD"]}

RECURSIVE SeqsUpTo(_, _)
SeqsUpTo(S, n) ==
  IF n = 0 THEN {<<>>}
  ELSE LET shorter == SeqsUpTo(S, n - 1)
       IN shorter \cup {Append(q, x) : q \in shorter, x \in S}

\* results of generateJson(intakeExtractionSchema, ...): a list of line
\* items, or a failure when the call throws
ExtractionResults ==
  {[ok |-> TRUE, lineItems |-> q] : q \in SeqsUpTo(ExtractableItems, MaxExtract)}
    \cup {[ok |-> FALSE, lineItems |-> <<>>]}

\* longest list of line items one extraction returns in the merge runs
MaxIncoming == 2

\* line items as the extraction collaborator writes them, before
\* lineItemSchema has parsed them: a field it did not state is absent
RawItems ==
  {[tool |-> "Slack", plan |-> "", annualCost |-> 19000, currency |-> "EUR"],
   [tool |-> "slack", plan |-> "Pro"],
   [tool |-> "Linear"],
   [tool |-> "Linear App", annualCostPerSeat |-> 96]}

\* an extraction's list: no item twice
RawLists ==
  {q \in SeqsUpTo(RawItems, MaxIncoming) : \A i, j \in 1..Len(q) : q[i] = q[j] => i = j}

\* what the benchmark research call can return for a tool the list does
\* not know (benchmarkDiscoverySchema), or nothing
DiscoveredBenchmarks ==
  {[tool |-> " Linear", aliases |-> <<"Linear", "linear.app">>,
    plans |-> <<"Free", " Plus ", "">>]}

\* userMessage = parsedBody.data.message.trim() (route.ts 729)
UserMessages == {Trim(m) : m \in Messages \cup PlanMessages}

\* the messages mapTierSuggestions is applied to on its own
TierMessages ==
  {"mid tier for Figma and Notion",
   "Top tier for Zoom; low-tier for the rest",
   "middle tier for linear & Microsoft 365. Entry tier for Zoom",
   "top tier for the rest; entry tier for Zoom"}

\* the lists of tools without a plan it is given with them
TierToolLists ==
  {<<"Figma", "Notion">>, <<"Notion", "Zoom", "Linear">>, <<"Microsoft 365", "Linear">>}

\* longest plan list suggestionForIntent is applied to on its own
MaxPlans == 5

\* route.ts 594-633
demoLineItems ==
  << [tool |-> "Figma", plan |-> "Professional", seats |-> 20, annualCost |-> 14000,
      currency |-> "USD", term |-> "annual",
      notes |-> "Demo: assume current spend slightly above fair market."],
     [tool |-> "Notion", plan |-> "Business", seats |-> 20, annualCost |-> 5200,
      currency |-> "USD", term |-> "annual",
      notes |-> "Demo: assume current spend slightly above fair market."],
     [tool |-> "Slack", plan |-> "Business+", seats |-> 20, annualCost |-> 6200,
      currency |-> "USD", term |-> "annual",
      notes |-> "Demo: assume current spend slightly above fair market."],
     [tool |-> "GitHub", plan |-> "Team", seats |-> 20, annualCost |-> 5800,
      currency |-> "USD", term |-> "annual",
      notes |-> "Demo: assume current spend slightly above fair market."] >>

\* ---------------------------------------------------------------------
\* Text intent classifiers (route.ts 328-375)
\* ---------------------------------------------------------------------

AffirmativeWords == {"y", "yes", "yeah", "yep", "sure", "ok", "okay", "add", "more"}
NegativeWords ==
  {"n", "no", "nope", "nah", "done", "finished", "that's all", "thats all",
   "all set", "nothing else", "no more", "no further"}
CollectiveWords == {"each", "all", "both", "those", "them"}
ListVerbs == {"list", "show", "repeat"}
MetaQuestionWords ==
  {"list", "show", "already shared", "repeat", "what did i", "what do you have"}

isAffirmative(text) == StartsWithWord(ToLower(Trim(text)), AffirmativeWords)

isNegative(text) == StartsWithWord(ToLower(Trim(text)), NegativeWords)

isMidTierAllTools(text) ==
  LET normalized == ToLower(Trim(text))
  IN /\ HasWord(normalized, {"mid", "middle"})
     /\ HasWord(normalized, {"tier"})
     /\ HasWord(normalized, CollectiveWords)
     /\ ~Includes(normalized, ":")

looksLikeSinglePlanForAll(text) ==
  LET normalized == ToLower(Trim(text))
  IN IF Includes(normalized, ":")
       THEN FALSE
       ELSE Len(normalized) > 0 /\ Len(normalized) <= 32 /\ HasWord(normalized, CollectiveWords)

looksLikePlanName(text) ==
  LET normalized == Trim(text)
  IN IF Len(normalized) = 0 \/ Len(normalized) > 48 THEN FALSE
     ELSE IF Includes(normalized, "<") \/ Includes(normalized, ">") THEN FALSE
     ELSE IF HasWord(ToLower(normalized), MetaQuestionWords) THEN FALSE
     ELSE WordCount(normalized) <= 6

looksLikeListRequest(text) ==
  LET normalized == ToLower(Trim(text))
  IN /\ HasWord(normalized, ListVerbs)
     /\ \/ HasWord(normalized, {"already"})
        \/ HasWord(normalized, {"shared"})
        \/ HasWord(normalized, {"have"})

\* the classifiers tabulated once on the messages of the model
MessageFacts ==
  [m \in UserMessages |->
     [isAffirmative |-> isAffirmative(m),
      isNegative |-> isNegative(m),
      isMidTierAllTools |-> isMidTierAllTools(m),
      looksLikeSinglePlanForAll |-> looksLikeSinglePlanForAll(m),
      looksLikePlanName |-> looksLikePlanName(m),
      looksLikeListRequest |-> looksLikeListRequest(m),
      normalized |-> ToLower(Trim(m))]]

Said(userMessage) == MessageFacts[userMessage]

\* ---------------------------------------------------------------------
\* Benchmarks (the benchmarks module, src/src/lib/gemini.ts 255-381)
\* ---------------------------------------------------------------------

SAAS_BENCHMARKS ==
  << [tool |-> "Slack",
      aliases |-> <<"slack", "slack business+", "slack business plus">>,
      plans |-> <<"Free", "Pro", "Business+", "Enterprise Grid">>],
     [tool |-> "Figma",
      aliases |-> <<"figma">>,
      plans |-> <<"Starter", "Professional", "Organization", "Enterprise">>],
     [tool |-> "Google Workspace",
      aliases |-> <<"google workspace", "workspace", "g suite">>,
      plans |-> <<"Business Starter", "Business Standard", "Business Plus", "Enterprise">>],
     [tool |-> "Microsoft 365",
      aliases |-> <<"microsoft 365", "office 365", "m365">>,
      plans |-> <<"Business Basic", "Business Standard", "Business Premium",
                  "Apps for business", "E3", "E5">>],
     [tool |-> "Notion",
      aliases |-> <<"notion">>,
      plans |-> <<"Free", "Plus", "Business", "Enterprise">>],
     [tool |-> "Zoom",
      aliases |-> <<"zoom", "zoom workplace">>,
      plans |-> <<"Basic", "Pro", "Business", "Business Plus", "Enterprise">>],
     [tool |-> "Atlassian Jira",
      aliases |-> <<"jira", "jira software", "atlassian">>,
      plans |-> <<"Free", "Standard", "Premium", "Enterprise">>],
     [tool |-> "Salesforce",
      aliases |-> <<"salesforce", "sfdc">>,
      plans |-> <<"Starter", "Professional", "Enterprise", "Unlimited">>] >>

\* The benchmark list of the serving process (@/lib/benchmarks): it starts
\* as SAAS_BENCHMARKS and grows when discovery registers a benchmark.
VARIABLE benchmarks

\* index of the first benchmark of a list matching the tool, 0 when there
\* is none (Array.prototype.find)
FirstMatch(list, tool) ==
  LET normalized == Trim(ToLower(tool))
      hits == {i \in 1..Len(list) :
                 \/ ToLower(list[i].tool) = normalized
                 \/ \E a \in 1..Len(list[i].aliases) :
                      Includes(normalized, list[i].aliases[a])}
  IN IF hits = {} THEN 0 ELSE CHOOSE i \in hits : \A j \in hits : i <= j

findBenchmarkForTool(tool) == FirstMatch(benchmarks, tool)

\* the non-empty elements of q without their repetitions, in order
\* (Array.from(new Set(...)) and the filter on length)
RECURSIVE Distinct(_, _)
Distinct(q, seen) ==
  IF q = <<>> THEN <<>>
  ELSE IF Head(q) \in seen \/ Head(q) = "" THEN Distinct(Tail(q), seen)
  ELSE <<Head(q)>> \o Distinct(Tail(q), seen \cup {Head(q)})

\* value.trim().toLowerCase() (gemini.ts 454-456)
normalizeTool(value) == ToLower(Trim(value))

NonEmpty(x) == x # ""

\* gemini.ts 484-505
discoveredToBenchmark(discovered) ==
  [tool |-> Trim(discovered.tool),
   aliases |-> Distinct([i \in 1..(Len(discovered.aliases) + 1) |->
                           IF i = 1 THEN normalizeTool(discovered.tool)
                           ELSE normalizeTool(discovered.aliases[i - 1])], {}),
   plans |-> SelectSeq([i \in 1..Len(discovered.plans) |-> Trim(discovered.plans[i])],
                       NonEmpty)]

\* registerBenchmark of @/lib/benchmarks: the benchmark joins the list
\* findBenchmarkForTool searches, behind the ones already there
registerBenchmark(list, benchmark) == Append(list, benchmark)

\* The tool names and the benchmark lists the model meets, and the lookup
\* tabulated on them once; Benchmark(tool) is findBenchmarkForTool(tool).
ToolStrings ==
  LET raw == {x.tool : x \in ExtractableItems}
               \cup {x.tool : x \in RawItems}
               \cup {demoLineItems[i].tool : i \in 1..Len(demoLineItems)}
               \cup {SAAS_BENCHMARKS[i].tool : i \in 1..Len(SAAS_BENCHMARKS)}
               \cup {Trim(x.tool) : x \in DiscoveredBenchmarks}
  IN raw \cup {Trim(t) : t \in raw}

BenchmarkLists ==
  {SAAS_BENCHMARKS}
    \cup {registerBenchmark(SAAS_BENCHMARKS, discoveredToBenchmark(b)) :
            b \in DiscoveredBenchmarks}

BenchmarkTable == [list \in BenchmarkLists |-> [t \in ToolStrings |-> FirstMatch(list, t)]]

Known(list, tool) ==
  IF list \in BenchmarkLists /\ tool \in ToolStrings
    THEN BenchmarkTable[list][tool]
    ELSE FirstMatch(list, tool)

Benchmark(tool) == Known(benchmarks, tool)

planOptionsForTool(tool) ==
  LET i == Benchmark(tool)
  IN IF i = 0 THEN <<>> ELSE benchmarks[i].plans

\* tool.trim().toLowerCase(), tabulated once on the tool names of the model
NormalizedTable == [t \in ToolStrings |-> ToLower(Trim(t))]

normalizeToolName(tool) ==
  IF tool \in ToolStrings THEN NormalizedTable[tool] ELSE ToLower(Trim(tool))

canonicalToolName(tool) ==
  LET i == Benchmark(tool)
  IN IF i = 0 THEN Trim(tool) ELSE benchmarks[i].tool

\* discoveredToBenchmark tabulated on what discovery can return
Converted == [b \in DiscoveredBenchmarks |-> discoveredToBenchmark(b)]

\* discoverAndPersistTool (gemini.ts 622-649) for one tool, found being
\* what the store or the research call came back with (<<>> for nothing)
discoverAndPersistTool(list, tool, found) ==
  IF normalizeToolName(tool) = "" \/ Known(list, tool) # 0 \/ found = <<>>
    THEN list
    ELSE registerBenchmark(list, Converted[found[1]])

\* ensureBenchmarksForTools (gemini.ts 669-682): the tools one after the
\* other, each lookup seeing what the earlier ones registered
RECURSIVE EnsureLoop(_, _, _)
EnsureLoop(list, tools, found) ==
  IF tools = <<>> THEN list
  ELSE EnsureLoop(discoverAndPersistTool(list, Head(tools), found), Tail(tools), found)

ensureBenchmarksForTools(tools, found) == EnsureLoop(benchmarks, tools, found)

\* ---------------------------------------------------------------------
\* Line items.  A line item is a function from the keys that are present
\* on the object to their values; an absent optional field is an absent key.
\* ---------------------------------------------------------------------

Has(item, key) == key \in DOMAIN item

\* { ...current, ...candidate }
Spread(current, candidate) ==
  [k \in (DOMAIN current) \cup (DOMAIN candidate) |->
     IF k \in DOMAIN candidate THEN candidate[k] ELSE current[k]]

\* { ...item, [key]: value }
With(item, key, value) ==
  [k \in (DOMAIN item) \cup {key} |-> IF k = key THEN value ELSE item[k]]

\* lineItemSchema.parse (contracts.ts 25-33): currency gets its default
lineItemParse(raw) ==
  IF Has(raw, "currency") THEN raw ELSE With(raw, "currency", "USD")

\* the position stored in indexByTool for a key, 0 when the key is absent
IndexOf(indexByTool, normalized) ==
  IF normalized \in DOMAIN indexByTool THEN indexByTool[normalized] ELSE 0

\* the loop's iteration with the spread written the other way round,
\* { ...candidate, ...current }: the existing values win
MergeCandidateExistingWins(acc, candidate) ==
  LET canonicalTool == canonicalToolName(candidate.tool)
      normalized == normalizeToolName(canonicalTool)
      existingIndex == IndexOf(acc.indexByTool, normalized)
  IN IF existingIndex = 0
       THEN [merged |-> Append(acc.merged, With(candidate, "tool", canonicalTool)),
             indexByTool |-> With(acc.indexByTool, normalized, Len(acc.merged) + 1)]
       ELSE [merged |-> [acc.merged EXCEPT
                           ![existingIndex] = Spread(candidate, acc.merged[existingIndex])],
             indexByTool |-> acc.indexByTool]

\* one iteration of the loop over incoming (route.ts 254-272)
MergeCandidate(acc, candidate) ==
  LET canonicalTool == canonicalToolName(candidate.tool)
      normalized == normalizeToolName(canonicalTool)
      existingIndex == IndexOf(acc.indexByTool, normalized)
      current == acc.merged[existingIndex]
      cur == IF Has(candidate, "currency") THEN candidate.currency
             ELSE IF Has(current, "currency") THEN current.currency
             ELSE "USD"
      replaced == With(With(Spread(current, candidate), "tool",
                            IF current.tool # "" THEN current.tool ELSE candidate.tool),
                       "currency", cur)
  IN IF existingIndex = 0
       THEN [merged |-> Append(acc.merged, With(candidate, "tool", canonicalTool)),
             indexByTool |-> With(acc.indexByTool, normalized, Len(acc.merged) + 1)]
       ELSE [merged |-> [acc.merged EXCEPT ![existingIndex] = replaced],
             indexByTool |-> acc.indexByTool]

RECURSIVE MergeLoop(_, _)
MergeLoop(acc, incoming) ==
  IF incoming = <<>> THEN acc
  ELSE MergeLoop(MergeCandidate(acc, Head(incoming)), Tail(incoming))

\* mergeLineItems copying only the canonical tool of the existing items,
\* without the spread of the item
mergeLineItemsToolOnly(existing, incoming) ==
  MergeLoop([merged |-> [i \in 1..Len(existing) |->
                           [tool |-> canonicalToolName(existing[i].tool)]],
             indexByTool |-> [n \in {} |-> 0]], incoming).merged

mergeLineItems(existing, incoming) ==
  LET merged == [i \in 1..Len(existing) |->
                   With(existing[i], "tool", canonicalToolName(existing[i].tool))]
      names == {normalizeToolName(merged[i].tool) : i \in 1..Len(merged)}
      \* Map.set in index order: the last position of a name wins
      indexByTool == [n \in names |->
                        CHOOSE i \in 1..Len(merged) :
                          /\ normalizeToolName(merged[i].tool) = n
                          /\ \A j \in 1..Len(merged) :
                               normalizeToolName(merged[j].tool) = n => j <= i]
  IN MergeLoop([merged |-> merged, indexByTool |-> indexByTool], incoming).merged

\* ---------------------------------------------------------------------
\* Completeness (route.ts 277-292)
\* ---------------------------------------------------------------------

ToolsOf(items) == [i \in 1..Len(items) |-> items[i].tool]

PlanMissing(item) == ~Has(item, "plan") \/ item.plan = "" \/ Len(Trim(item.plan)) = 0

PriceMissing(item) == ~Has(item, "annualCost") /\ ~Has(item, "annualCostPerSeat")

missingPlanTools(items) == ToolsOf(SelectSeq(items, PlanMissing))

\* missingPriceTools looking at annualCost only
AnnualCostMissing(item) == ~Has(item, "annualCost")

missingPriceToolsAnnualOnly(items) == ToolsOf(SelectSeq(items, AnnualCostMissing))

missingPriceTools(items) == ToolsOf(SelectSeq(items, PriceMissing))

\* ---------------------------------------------------------------------
\* Tier suggestions (route.ts 391-406, 429-546)
\* ---------------------------------------------------------------------

\* the middle of a list taken as one plan whatever its length
middlePlanCandidatesSingle(plans) ==
  IF Len(plans) = 0 THEN <<>> ELSE <<plans[(Len(plans) \div 2) + 1]>>

\* route.ts 391-406
middlePlanCandidates(plans) ==
  IF Len(plans) = 0 THEN <<>>
  ELSE IF Len(plans) <= 2 THEN plans
  ELSE IF Len(plans) % 2 = 1 THEN <<plans[(Len(plans) \div 2) + 1]>>
  ELSE <<plans[Len(plans) \div 2], plans[(Len(plans) \div 2) + 1]>>

\* suggestionForIntent answering top with the first plan
suggestionForIntentFirst(plans, intent) ==
  IF intent \in {"top", "low"} THEN (IF Len(plans) > 0 THEN <<plans[1]>> ELSE <<>>)
  ELSE middlePlanCandidates(plans)

\* route.ts 472-480
suggestionForIntent(plans, intent) ==
  IF intent = "top" THEN (IF Len(plans) > 0 THEN <<plans[Len(plans)]>> ELSE <<>>)
  ELSE IF intent = "low" THEN (IF Len(plans) > 0 THEN <<plans[1]>> ELSE <<>>)
  ELSE middlePlanCandidates(plans)

TierKeywords ==
  {"low", "entry", "starter", "bottom", "lowest", "mid", "middle", "top", "highest",
   "enterprise"}

toIntent(keyword) ==
  IF keyword \in {"mid", "middle"} THEN "mid"
  ELSE IF keyword \in {"top", "highest", "enterprise"} THEN "top"
  ELSE "low"

\* first position >= i of s that holds no whitespace (Len(s)+1 at the end)
SkipSpace(s, i) ==
  CHOOSE k \in i..(Len(s) + 1) :
    /\ k = Len(s) + 1 \/ Ch(s, k) \notin SpaceChars
    /\ \A j \in i..(k - 1) : Ch(s, j) \in SpaceChars

\* first position >= i of s that holds one of . ; \n (Len(s)+1 at the end)
TargetEnd(s, i) ==
  CHOOSE k \in i..(Len(s) + 1) :
    /\ k = Len(s) + 1 \/ Ch(s, k) \in {".", ";", "\n"}
    /\ \A j \in i..(k - 1) : Ch(s, j) \notin {".", ";", "\n"}

\* One match of tierRegex starting at position i, read left to right:
\*   \b(keyword)\b\s*(?:-|\s*)tier\b\s*for\s+([^.;\n]+)
NoTierMatch(i) == [ok |-> FALSE, keyword |-> "", target |-> "", next |-> i]

\* ([^.;\n]+) from targetAt, reached over at least one whitespace
TierCapture(s, i, kw, afterFor, targetAt) ==
  IF targetAt > afterFor /\ TargetEnd(s, targetAt) > targetAt
    THEN [ok |-> TRUE, keyword |-> kw,
          target |-> Trim(SubSeq(s, targetAt, TargetEnd(s, targetAt) - 1)),
          next |-> TargetEnd(s, targetAt)]
    ELSE NoTierMatch(i)

\* tier\b\s*for\s+ from tierAt
TierWord(s, i, kw, tierAt) ==
  IF /\ MatchAt(s, "tier", tierAt)
     /\ Boundary(s, tierAt + 3)
     /\ MatchAt(s, "for", SkipSpace(s, tierAt + 4))
    THEN TierCapture(s, i, kw, SkipSpace(s, tierAt + 4) + 3,
                     SkipSpace(s, SkipSpace(s, tierAt + 4) + 3))
    ELSE NoTierMatch(i)

\* \s*(?:-|\s*) from the end of the keyword
TierDash(s, i, kw, afterKw) ==
  TierWord(s, i, kw, IF MatchAt(s, "-", afterKw) THEN afterKw + 1 ELSE afterKw)

KeywordsAt(s, i) ==
  {kw \in TierKeywords : MatchAt(s, kw, i) /\ Boundary(s, i + Len(kw) - 1)}

TierKeyword(s, i, kw) == TierDash(s, i, kw, SkipSpace(s, i + Len(kw)))

TierMatchAt(s, i) ==
  IF Boundary(s, i - 1) /\ KeywordsAt(s, i) # {}
    THEN TierKeyword(s, i, CHOOSE kw \in KeywordsAt(s, i) : TRUE)
    ELSE NoTierMatch(i)

\* /\b(the\s+)?(other|others|rest|remaining|everything\s+else)\b/.test(target);
\* the second test, /\bother\s+\d+\b/, matches only where the first one does
IsRestTarget(target) ==
  \/ HasWord(target, {"other", "others", "rest", "remaining"})
  \/ \E i \in 1..Len(target) :
       /\ Boundary(target, i - 1)
       /\ MatchAt(target, "everything", i)
       /\ SkipSpace(target, i + 10) > i + 10
       /\ MatchAt(target, "else", SkipSpace(target, i + 10))
       /\ Boundary(target, SkipSpace(target, i + 10) + 3)

Separators == {",", "&", " and "}

\* target.split(/,|&| and /i).map(trim).filter(Boolean)
RECURSIVE SplitTarget(_)
SplitTarget(t) ==
  LET hits == {i \in 1..Len(t) : \E sep \in Separators : MatchAt(t, sep, i)}
      p == CHOOSE i \in hits : \A j \in hits : i <= j
      sep == CHOOSE x \in Separators : MatchAt(t, x, p)
      piece(x) == IF Trim(x) = "" THEN <<>> ELSE <<Trim(x)>>
  IN IF hits = {} THEN piece(t)
     ELSE piece(SubSeq(t, 1, p - 1)) \o SplitTarget(SubSeq(t, p + Len(sep), Len(t)))

\* Map.prototype.set on a map kept as a sequence of <<key, value>> in
\* insertion order
RECURSIVE MapSetAll(_, _, _)
MapSetAll(entries, keys, value) ==
  IF keys = <<>> THEN entries
  ELSE LET k == Head(keys)
           at == {i \in 1..Len(entries) : entries[i][1] = k}
           next == IF at = {} THEN Append(entries, <<k, value>>)
                   ELSE [entries EXCEPT ![CHOOSE i \in at : TRUE] = <<k, value>>]
       IN MapSetAll(next, Tail(keys), value)

\* the loop of route.ts 445-467: the next match of tierRegex at or after
\* from, then the rest target test or the toolIntents.set calls
RECURSIVE TierScan(_, _, _)
TierStatement(s, toolIntents, m) ==
  IF IsRestTarget(m.target)
    THEN [toolIntents |-> toolIntents, restIntent |-> toIntent(m.keyword)]
    ELSE TierScan(s, m.next,
                  MapSetAll(toolIntents, SplitTarget(m.target), toIntent(m.keyword)))

TierStarts(s, from) == {i \in from..Len(s) : TierMatchAt(s, i).ok}

Least(S) == CHOOSE i \in S : \A j \in S : i <= j

TierScan(s, from, toolIntents) ==
  IF TierStarts(s, from) = {}
    THEN [toolIntents |-> toolIntents, restIntent |-> "none"]
    ELSE TierStatement(s, toolIntents, TierMatchAt(s, Least(TierStarts(s, from))))

parseTierStatements(text) == TierScan(ToLower(text), 1, <<>>)

\* parseTierStatements tabulated once on the messages of the model
TierStatements == [m \in UserMessages \cup TierMessages |-> parseTierStatements(m)]

\* resolveIntentForTool (route.ts 501-520); "none" stands for null
resolveIntentForTool(parsed, normalizedMessage, tool) ==
  LET toolLower == ToLower(tool)
      hits == {i \in 1..Len(parsed.toolIntents) :
                 \/ Includes(ToLower(parsed.toolIntents[i][1]), toolLower)
                 \/ Includes(toolLower, ToLower(parsed.toolIntents[i][1]))}
  IN IF hits # {}
       THEN parsed.toolIntents[CHOOSE i \in hits : \A j \in hits : i <= j][2]
     ELSE IF Includes(normalizedMessage, toolLower)
       THEN IF HasWord(normalizedMessage, {"top", "highest", "enterprise"}) THEN "top"
            ELSE IF HasWord(normalizedMessage, {"mid", "middle"}) THEN "mid"
            ELSE IF HasWord(normalizedMessage, {"low", "entry", "starter", "bottom", "lowest"})
              THEN "low"
            ELSE "none"
     ELSE "none"

\* the intent of a tool under a message, and the catch-all intent of the
\* message, tabulated once on the messages and tool names of the model
TierIntents ==
  [m \in UserMessages \cup TierMessages |->
     [restIntent |-> TierStatements[m].restIntent,
      intentOf |-> [t \in ToolStrings |->
                      resolveIntentForTool(TierStatements[m], ToLower(m), t)]]]

IntentFor(message, tool) == TierIntents[message].intentOf[tool]

RestIntent(message) == TierIntents[message].restIntent

\* suggestionForIntent for an intent that may be null (route.ts 524-527, 534)
SuggestionOrNone(plans, intent) ==
  IF intent = "none" THEN <<>> ELSE suggestionForIntent(plans, intent)

\* route.ts 523-532
DirectSuggestion(message, tool) ==
  SuggestionOrNone(planOptionsForTool(tool), IntentFor(message, tool))

\* route.ts 534-543
RestSuggestion(message, tool) ==
  SuggestionOrNone(planOptionsForTool(tool), RestIntent(message))

TierSuggested(message, explicitTools, restTools) ==
  [t \in explicitTools \cup restTools |->
     IF t \in explicitTools THEN DirectSuggestion(message, t)
     ELSE RestSuggestion(message, t)]

\* The result is a function from tool to its suggested plans; the empty
\* function stands for null.
mapTierSuggestions(message, missingTools) ==
  TierSuggested(message,
    {t \in {missingTools[i] : i \in 1..Len(missingTools)} :
       DirectSuggestion(message, t) # <<>>},
    {t \in {missingTools[i] : i \in 1..Len(missingTools)} :
       RestSuggestion(message, t) # <<>>})

Stages == {"collect", "confirm_plans", "confirm_more", "prompt_signin", "ready", "briefed"}

NoSuggestions == [t \in {} |-> <<>>]

\* intakeStateSchema.parse({}): the state of a session that has stored nothing
EmptyIntake == [lineItems |-> <<>>, planSuggestions |-> NoSuggestions, stage |-> "collect"]

VARIABLES
  intake,     \* chatSession.intake, the persisted IntakeState document
  stageCol,   \* chatSession.stage, the denormalized stage column
  userId,     \* chatSession.userId, "none" while no identity is attached
  demoMode,   \* DEMO_MODE_ENABLED of the serving process
  turn,       \* what the last request did: its input, the collaborators'
              \* outcomes, the reply and the intake states it persisted
  call,       \* the last direct application of a list function: its
              \* arguments and what it returned
  rateLimitStore,  \* the Map from client ip to { count, resetAt }
  clock,           \* half seconds elapsed; Date.now() is clock * 500
  handlers,        \* where each request handler of the process stands
  verdict,         \* the last checkRateLimit call: its ip and what it returned
  admitted,        \* per ip, the requests admitted since its window was opened
  prisma,     \* whether the process has a store (DATABASE_URL is set)
  db,         \* the numbers of chatSession and chatMessage rows
  inflight,   \* per handler, the chat turn it is working on
  gen,        \* the generateJson call in progress
  inFlight,        \* the Map from normalized tool name to the promise of
                   \* its discovery, a promise being named by its starter
  attemptedTools,  \* the Set of normalized names research was started for
  discoveries,     \* per handler, the tool it called ensureTool for, the
                   \* promise it awaits and where the discovery it started stands
  reads       \* what each request in progress has read of the session and
              \* the writes it has still to make

limiterVars == <<rateLimitStore, clock, handlers, verdict, admitted>>

sessionVars == <<intake, stageCol, userId, demoMode, turn, benchmarks, call>>

turnVars == <<prisma, db, inflight, gen>>

discoveryVars == <<inFlight, attemptedTools, discoveries>>

writerVars == <<reads>>

vars == <<intake, stageCol, userId, demoMode, turn, benchmarks, call,
          rateLimitStore, clock, handlers, verdict, admitted,
          prisma, db, inflight, gen, inFlight, attemptedTools, discoveries, reads>>

\* loadIntakeState (route.ts 162-181): the stage column overrides the
\* stage stored in the document
loadIntakeState == [intake EXCEPT !.stage = stageCol]

\* ---------------------------------------------------------------------
\* One chat turn (route.ts 697-1366).  Each block yields the set of
\* outcomes the collaborators allow: [extraction, advisor, reply, writes],
\* writes being the states handed to persistIntakeState, in order.
\* ---------------------------------------------------------------------

Outcome(extraction, advisor, reply, writes) ==
  [extraction |-> extraction, advisor |-> advisor, reply |-> reply, writes |-> writes]

MapItems(items, F(_)) == [i \in 1..Len(items) |-> F(items[i])]

InSeq(x, q) == \E i \in 1..Len(q) : q[i] = x

Last(q) == q[Len(q)]

\* the bypass test without its lineItems.length > 0 condition
shouldBypassClassifierOnAnyList(state, userMessage) ==
  \/ state.stage \in {"confirm_more", "confirm_plans", "ready", "prompt_signin"}
  \/ Said(userMessage).isAffirmative
  \/ Said(userMessage).isNegative
  \/ Said(userMessage).looksLikeListRequest
  \/ Said(userMessage).normalized = "correct"

\* route.ts 780-791
shouldBypassClassifier(state, userMessage) ==
  \/ state.stage \in {"confirm_more", "confirm_plans", "ready", "prompt_signin"}
  \/ /\ Len(state.lineItems) > 0
     /\ \/ Said(userMessage).isAffirmative
        \/ Said(userMessage).isNegative
        \/ Said(userMessage).looksLikeListRequest
        \/ Said(userMessage).normalized = "correct"

\* reply after a plan was filled in confirm_plans (route.ts 881-891, 911-920)
AfterPlansReply(filled) ==
  IF Len(missingPriceTools(filled)) > 0 THEN "ask_prices" ELSE "ask_more"

\* option.toLowerCase() === normalized, compared without folding the case
MatchesOptionExactCase(option, normalized) == option = normalized

\* option.toLowerCase() === normalized (route.ts 898)
MatchesOption(option, normalized) == ToLower(option) = normalized

\* route.ts 848-927
ConfirmPlansBlock(state, userMessage) ==
  LET normalized == Said(userMessage).normalized
      suggestions == state.planSuggestions
      ambiguous == {t \in DOMAIN suggestions : Len(suggestions[t]) # 1}
      fillOne(item) ==
        IF /\ ~Has(item, "plan") \/ item.plan = ""
           /\ item.tool \in DOMAIN suggestions
           /\ Len(suggestions[item.tool]) = 1
          THEN With(item, "plan", suggestions[item.tool][1])
          ELSE item
      ambiguousTools == {t \in DOMAIN suggestions : Len(suggestions[t]) = 2}
      tool == CHOOSE t \in ambiguousTools : TRUE
      matching == {i \in 1..2 : MatchesOption(suggestions[tool][i], normalized)}
      chosen == suggestions[tool][CHOOSE i \in matching : \A j \in matching : i <= j]
      choose(item) == IF item.tool = tool THEN With(item, "plan", chosen) ELSE item
      next(filled) == [state EXCEPT !.lineItems = filled,
                                    !.planSuggestions = NoSuggestions,
                                    !.stage = "collect"]
  IN IF normalized \in {"correct", "looks good", "yes"}
       THEN IF ambiguous # {}
              THEN {Outcome("none", "none", "pick_plan", <<>>)}
              ELSE {Outcome("none", "none",
                            AfterPlansReply(MapItems(state.lineItems, fillOne)),
                            <<next(MapItems(state.lineItems, fillOne))>>)}
     ELSE IF Cardinality(ambiguousTools) = 1 /\ matching # {}
       THEN {Outcome("none", "none",
                     AfterPlansReply(MapItems(state.lineItems, choose)),
                     <<next(MapItems(state.lineItems, choose))>>)}
     ELSE {Outcome("none", "none", "confirm_plans_reprompt", <<>>)}

\* the advisory generation, persisting briefed whether or not it succeeded
AdvisorStepAdvancingOnFailure(readyState, before) ==
  {Outcome("none", "ok", "brief", Append(before, [readyState EXCEPT !.stage = "briefed"])),
   Outcome("none", "failed", "advisor_fallback",
           Append(before, [readyState EXCEPT !.stage = "briefed"]))}

\* the advisory generation and what follows it (route.ts 964-1015, 1059-1110)
AdvisorStep(readyState, before) ==
  {Outcome("none", "ok", "brief", Append(before, [readyState EXCEPT !.stage = "briefed"])),
   Outcome("none", "failed", "advisor_fallback", before)}

\* the confirm_more block with the two reply tests in the other order of
\* outcome: "yes" finishes and "no" goes back to collecting
ConfirmMoreBlockSwapped(state, userMessage) ==
  IF Said(userMessage).isNegative
    THEN {Outcome("none", "none", "add_next", <<[state EXCEPT !.stage = "collect"]>>)}
  ELSE IF Said(userMessage).isAffirmative
    THEN AdvisorStep([state EXCEPT !.stage = "ready"], <<[state EXCEPT !.stage = "ready"]>>)
  ELSE {Outcome("none", "none", "ask_more_again", <<>>)}

\* route.ts 929-1022
ConfirmMoreBlock(state, userMessage) ==
  IF Said(userMessage).isAffirmative
    THEN {Outcome("none", "none", "add_next", <<[state EXCEPT !.stage = "collect"]>>)}
  ELSE IF Said(userMessage).isNegative
    THEN AdvisorStep([state EXCEPT !.stage = "ready"], <<[state EXCEPT !.stage = "ready"]>>)
  ELSE {Outcome("none", "none", "ask_more_again", <<>>)}

\* route.ts 1036-1111
ReadyBlock(state) == AdvisorStep(state, <<>>)

\* the filter letting every extracted item through
KeepEveryItem(item) == TRUE

\* route.ts 1137-1145
KeepExtracted(item) ==
  LET tool == ToLower(Trim(item.tool))
  IN Len(tool) # 0 /\ tool \notin {"unknown", "n/a", "na", "none"}

\* the reroute test without its lineItems.length > 0 conjunct
NegativeRerouteOnEmptyList(state, userMessage) == Said(userMessage).isNegative

\* route.ts 1114-1122
NegativeReroute(state, userMessage) == Said(userMessage).isNegative /\ Len(state.lineItems) > 0

\* nextState with the merged list and stage collect (route.ts 1148, 1176)
Collecting(state, mergedItems) ==
  [state EXCEPT !.lineItems = mergedItems, !.stage = "collect"]

\* route.ts 1161-1172: a lone missing plan is taken from a message that
\* looks like a plan name
NamePlan(mergedItems, userMessage, noneExtracted) ==
  LET missingPlansBefore == missingPlanTools(mergedItems)
      nameIt(item) == IF item.tool = missingPlansBefore[1]
                        THEN With(item, "plan", userMessage) ELSE item
  IN IF Len(missingPlansBefore) = 1 /\ noneExtracted /\ Said(userMessage).looksLikePlanName
       THEN MapItems(mergedItems, nameIt) ELSE mergedItems

\* route.ts 1226-1233: one plan named for all the tools that miss one
PlanForAll(mergedItems, missingPlans, userMessage) ==
  LET planAll(item) == IF InSeq(item.tool, missingPlans)
                         THEN With(item, "plan", Trim(userMessage)) ELSE item
  IN MapItems(mergedItems, planAll)

\* route.ts 1235-1266, after the autofill; written holds the states
\* persisted so far in the turn
AfterAutofill(status, written, mergedItems) ==
  IF Len(missingPlanTools(mergedItems)) > 0
    THEN Outcome(status, "none", "ask_plans", written)
  ELSE IF Len(missingPriceTools(mergedItems)) > 0
    THEN Outcome(status, "none", "ask_prices", written)
  ELSE Outcome(status, "none", "ask_more",
               Append(written, [Last(written) EXCEPT !.lineItems = mergedItems,
                                                     !.stage = "confirm_more"]))

\* route.ts 1175-1267: some tool misses its plan; nextState was persisted
\* with stage collect at 1177
MissingPlans(nextState, userMessage, status, noneExtracted, missingPlans, tierSuggestions) ==
  IF noneExtracted /\ DOMAIN tierSuggestions # {}
    THEN Outcome(status, "none", "plan_guess",
                 <<nextState, [nextState EXCEPT !.planSuggestions = tierSuggestions,
                                                !.stage = "confirm_plans"]>>)
  ELSE IF noneExtracted /\ Said(userMessage).isMidTierAllTools
    THEN Outcome(status, "none", "which_mid_plan", <<nextState>>)
  ELSE IF noneExtracted /\ Said(userMessage).looksLikeSinglePlanForAll
    THEN AfterAutofill(status,
           <<nextState, [nextState EXCEPT !.lineItems =
                           PlanForAll(nextState.lineItems, missingPlans, userMessage)]>>,
           PlanForAll(nextState.lineItems, missingPlans, userMessage))
  ELSE AfterAutofill(status, <<nextState>>, nextState.lineItems)

\* route.ts 1174-1285, on the list left by the plan autofill
Completeness(nextState, userMessage, status, noneExtracted, missingPlans) ==
  IF Len(missingPlans) > 0
    THEN MissingPlans(nextState, userMessage, status, noneExtracted, missingPlans,
                      mapTierSuggestions(userMessage, missingPlans))
  ELSE IF Len(missingPriceTools(nextState.lineItems)) > 0
    THEN Outcome(status, "none", "ask_prices", <<nextState>>)
  ELSE Outcome(status, "none", "ask_more", <<[nextState EXCEPT !.stage = "confirm_more"]>>)

\* route.ts 1147-1172: the merge, the empty-list reply, the plan autofill
Merged(state, userMessage, status, noneExtracted, mergedItems) ==
  IF Len(mergedItems) = 0
    THEN Outcome(status, "none", "tell_subscriptions", <<Collecting(state, mergedItems)>>)
    ELSE Completeness(Collecting(state, NamePlan(mergedItems, userMessage, noneExtracted)),
                      userMessage, status, noneExtracted,
                      missingPlanTools(NamePlan(mergedItems, userMessage, noneExtracted)))

\* the extracted items that pass the filter; the catch block substitutes
\* { lineItems: [] } (route.ts 1133-1145)
ExtractedItems(extracted) ==
  IF extracted.ok THEN SelectSeq(extracted.lineItems, KeepExtracted) ELSE <<>>

\* an outcome together with the numbers of extracted items the filter of
\* route.ts 1137-1145 kept and removed
Filtering(o, kept, dropped) ==
  [extraction |-> o.extraction, advisor |-> o.advisor, reply |-> o.reply,
   writes |-> o.writes, kept |-> kept, dropped |-> dropped]

\* the collect block whose catch hands the extraction failure on to the
\* outer catch of POST
CollectMergeRethrowing(state, userMessage, extracted) ==
  IF ~extracted.ok
    THEN Filtering(Outcome("failed", "none", "error_500", <<>>), 0, 0)
    ELSE Filtering(Merged(state, userMessage, "ok",
                          Len(ExtractedItems(extracted)) = 0,
                          mergeLineItems(state.lineItems, ExtractedItems(extracted))),
                   Len(ExtractedItems(extracted)),
                   Len(extracted.lineItems) - Len(ExtractedItems(extracted)))

\* route.ts 1124-1285, for one result of the extraction call
CollectMerge(state, userMessage, extracted) ==
  Filtering(Merged(state, userMessage, IF extracted.ok THEN "ok" ELSE "failed",
                   Len(ExtractedItems(extracted)) = 0,
                   mergeLineItems(state.lineItems, ExtractedItems(extracted))),
            Len(ExtractedItems(extracted)),
            Len(extracted.lineItems) - Len(ExtractedItems(extracted)))

\* the collect block without the negative reroute
CollectBlockWithoutReroute(state, userMessage) ==
  {CollectMerge(state, userMessage, x) : x \in ExtractionResults}

\* route.ts 1113-1286
CollectBlock(state, userMessage) ==
  IF NegativeReroute(state, userMessage)
    THEN {Outcome("none", "none", "ask_more", <<[state EXCEPT !.stage = "confirm_more"]>>)}
    ELSE {CollectMerge(state, userMessage, x) : x \in ExtractionResults}

\* route.ts 1289-1352
OpenConversation ==
  {Outcome("none", "ok", "brief", <<>>), Outcome("none", "failed", "advisor_fallback", <<>>)}

\* the stage dispatch without the stage !== "briefed" guard of route.ts 1113
IntakeBlocksMergingWhenBriefed(state, user, userMessage) ==
  IF Said(userMessage).looksLikeListRequest
    THEN {Outcome("none", "none", "summary", <<>>)}
  ELSE IF state.stage = "confirm_plans" THEN ConfirmPlansBlock(state, userMessage)
  ELSE IF state.stage = "confirm_more" THEN ConfirmMoreBlock(state, userMessage)
  ELSE IF state.stage = "prompt_signin" /\ user = "none"
    THEN {Outcome("none", "none", "signin", <<>>)}
  ELSE IF state.stage = "ready" THEN ReadyBlock(state)
  ELSE CollectBlock(state, userMessage)

\* route.ts 838-1287: the stage dispatch for an allowed message
IntakeBlocks(state, user, userMessage) ==
  IF Said(userMessage).looksLikeListRequest
    THEN {Outcome("none", "none", "summary", <<>>)}
  ELSE IF state.stage = "confirm_plans" THEN ConfirmPlansBlock(state, userMessage)
  ELSE IF state.stage = "confirm_more" THEN ConfirmMoreBlock(state, userMessage)
  ELSE IF state.stage = "prompt_signin" /\ user = "none"
    THEN {Outcome("none", "none", "signin", <<>>)}
  ELSE IF state.stage = "ready" THEN ReadyBlock(state)
  ELSE IF state.stage # "briefed" THEN CollectBlock(state, userMessage)
  ELSE OpenConversation

\* route.ts 777-836: the topic gate; a classifier call that throws ends
\* the request in the outer catch (route.ts 1353-1365)
ChatOutcomes(state, user, userMessage) ==
  LET gate(c, outs) == {[classifier |-> c, out |-> o] : o \in outs}
  IN IF shouldBypassClassifier(state, userMessage)
       THEN gate("bypass", IntakeBlocks(state, user, userMessage))
       ELSE gate("allowed", IntakeBlocks(state, user, userMessage))
            \cup gate("disallowed", {Outcome("none", "none", "off_topic", <<>>)})
            \cup gate("failed", {Outcome("none", "none", "error_500", <<>>)})

\* ---------------------------------------------------------------------
\* The rate limiter (route.ts 31-33, 39, 102-140, 697-716).  A handler
\* calls checkRateLimit synchronously when its request arrives and then,
\* if admitted, goes on through its awaits while other handlers arrive.
\* ---------------------------------------------------------------------

\* both are read from the environment of the process (route.ts 31-32);
\* the process of the model runs with a window of one and a half seconds
\* and two requests per window
RATE_LIMIT_WINDOW_MS == 1500

RATE_LIMIT_MAX_REQUESTS == 2

\* last value of the clock
MaxClock == 5

\* request handlers the process runs at a time
MaxHandlers == 2

Handlers == 1..MaxHandlers

Clocks == 0..MaxClock

\* Date.now() (route.ts 102-104)
now == clock * 500

\* the x-forwarded-for header of a request, <<>> when it has none
ForwardedHeaders == {<<>>, <<" 203.0.113.7 , 10.0.0.1">>, <<" ,10.0.0.1">>}

\* the header up to its first comma (forwarded.split(",")[0])
FirstPart(forwarded) ==
  LET commas == {i \in 1..Len(forwarded) : Ch(forwarded, i) = ","}
  IN IF commas = {} THEN forwarded
     ELSE SubSeq(forwarded, 1, (CHOOSE i \in commas : \A j \in commas : i <= j) - 1)

\* route.ts 106-115
getClientIp(header) ==
  IF header = <<>> THEN "unknown"
  ELSE IF Trim(FirstPart(header[1])) = "" THEN "unknown"
  ELSE Trim(FirstPart(header[1]))

ClientIp == [header \in ForwardedHeaders |-> getClientIp(header)]

Ips == {ClientIp[header] : header \in ForwardedHeaders}

\* Math.floor(ms / 1000) for ms >= 0
FloorSeconds(ms) == ms \div 1000

\* Math.ceil(ms / 1000) for ms >= 0
CeilSeconds(ms) == (ms + 999) \div 1000

AtLeastOne(n) == IF n < 1 THEN 1 ELSE n

\* checkRateLimit whose limit test is count > max
checkRateLimitOffByOne(store, ip, currentTime) ==
  IF ip \notin DOMAIN store \/ store[ip].resetAt <= currentTime
    THEN [store |-> With(store, ip, [count |-> 1,
                                     resetAt |-> currentTime + RATE_LIMIT_WINDOW_MS]),
          limited |-> FALSE, retryAfterSeconds |-> 0]
  ELSE IF store[ip].count > RATE_LIMIT_MAX_REQUESTS
    THEN [store |-> store, limited |-> TRUE,
          retryAfterSeconds |-> AtLeastOne(CeilSeconds(store[ip].resetAt - currentTime))]
  ELSE [store |-> [store EXCEPT ![ip].count = @ + 1],
        limited |-> FALSE, retryAfterSeconds |-> 0]

\* checkRateLimit whose window ends only after resetAt has passed
checkRateLimitLateReset(store, ip, currentTime) ==
  IF ip \notin DOMAIN store \/ store[ip].resetAt < currentTime
    THEN [store |-> With(store, ip, [count |-> 1,
                                     resetAt |-> currentTime + RATE_LIMIT_WINDOW_MS]),
          limited |-> FALSE, retryAfterSeconds |-> 0]
  ELSE IF store[ip].count >= RATE_LIMIT_MAX_REQUESTS
    THEN [store |-> store, limited |-> TRUE,
          retryAfterSeconds |-> AtLeastOne(CeilSeconds(store[ip].resetAt - currentTime))]
  ELSE [store |-> [store EXCEPT ![ip].count = @ + 1],
        limited |-> FALSE, retryAfterSeconds |-> 0]

\* checkRateLimit (route.ts 117-140): the store it leaves and the result
\* it returns, retryAfterSeconds being 0 where the result has none
checkRateLimit(store, ip, currentTime) ==
  IF ip \notin DOMAIN store \/ store[ip].resetAt <= currentTime
    THEN [store |-> With(store, ip, [count |-> 1,
                                     resetAt |-> currentTime + RATE_LIMIT_WINDOW_MS]),
          limited |-> FALSE, retryAfterSeconds |-> 0]
  ELSE IF store[ip].count >= RATE_LIMIT_MAX_REQUESTS
    THEN [store |-> store, limited |-> TRUE,
          retryAfterSeconds |-> AtLeastOne(CeilSeconds(store[ip].resetAt - currentTime))]
  ELSE [store |-> [store EXCEPT ![ip].count = @ + 1],
        limited |-> FALSE, retryAfterSeconds |-> 0]

\* String(n) of an integer n >= 0: its decimal digits
RECURSIVE String(_)
String(n) ==
  IF n < 10 THEN Ch(DigitAlphabet, n + 1)
  ELSE String(n \div 10) \o Ch(DigitAlphabet, (n % 10) + 1)

\* the Retry-After header of the 429 response (route.ts 711)
RetryAfter(result) ==
  String(IF result.retryAfterSeconds = 0 THEN 60 ELSE result.retryAfterSeconds)

\* what POST answers on arrival (route.ts 698-716): status 429 with its
\* Retry-After header, or nothing yet (status 0) for an admitted request
Verdict(ip, result) ==
  [ip |-> ip, limited |-> result.limited,
   retryAfterSeconds |-> result.retryAfterSeconds,
   status |-> IF result.limited THEN 429 ELSE 0,
   retryAfter |-> IF result.limited THEN RetryAfter(result) ELSE ""]

NoVerdict ==
  [ip |-> "", limited |-> FALSE, retryAfterSeconds |-> 0, status |-> 0, retryAfter |-> ""]

LimiterInit ==
  /\ rateLimitStore = [ip \in {} |-> 0]
  /\ clock = 0
  /\ handlers = [h \in Handlers |-> "idle"]
  /\ verdict = NoVerdict
  /\ admitted = [ip \in Ips |-> 0]

\* the entry of ip is a new window: there was none, or its end moved
Opens(store, next, ip) ==
  ip \notin DOMAIN store \/ next[ip].resetAt # store[ip].resetAt

\* the count of admitted requests after one more call for ip
Counted(n, store, next, limited, ip) ==
  IF limited THEN n ELSE IF Opens(store, next, ip) THEN 1 ELSE n + 1

\* POST up to the rate-limit answer (route.ts 697-716)
Arrive(h) ==
  /\ handlers[h] = "idle"
  /\ \E header \in ForwardedHeaders :
       /\ verdict' = Verdict(ClientIp[header],
                              checkRateLimit(rateLimitStore, ClientIp[header], now))
       /\ rateLimitStore' = checkRateLimit(rateLimitStore, ClientIp[header], now).store
  /\ handlers' = [handlers EXCEPT ![h] = IF verdict'.limited THEN "rejected" ELSE "admitted"]
  /\ admitted' = [admitted EXCEPT
                    ![verdict'.ip] = Counted(@, rateLimitStore, rateLimitStore',
                                             verdict'.limited, verdict'.ip)]
  /\ UNCHANGED clock
  /\ UNCHANGED sessionVars
  /\ UNCHANGED turnVars
  /\ UNCHANGED discoveryVars
  /\ UNCHANGED writerVars

\* the handler returns its response: the 429, or the reply after its awaits
Respond(h) ==
  /\ handlers[h] # "idle"
  /\ handlers' = [handlers EXCEPT ![h] = "idle"]
  /\ UNCHANGED <<rateLimitStore, clock, verdict, admitted>>
  /\ UNCHANGED sessionVars
  /\ UNCHANGED turnVars
  /\ UNCHANGED discoveryVars
  /\ UNCHANGED writerVars

\* time passes
Tick ==
  /\ clock < MaxClock
  /\ clock' = clock + 1
  /\ UNCHANGED <<rateLimitStore, handlers, verdict, admitted>>
  /\ UNCHANGED sessionVars
  /\ UNCHANGED turnVars
  /\ UNCHANGED discoveryVars
  /\ UNCHANGED writerVars

LimiterNext == (\E h \in Handlers : Arrive(h)) \/ (\E h \in Handlers : Respond(h)) \/ Tick

\* ---------------------------------------------------------------------
\* Requests
\* ---------------------------------------------------------------------

\* an empty store
NoRows == [sessions |-> 0, messages |-> 0]

\* a handler without a chat turn
NoTurn == [status |-> 0, reply |-> "none", read |-> <<>>, pending |-> <<>>, wrote |-> <<>>]

\* a handler outside ensureTool
NoDiscovery == [tool |-> "", awaits |-> 0, phase |-> "none"]

\* no generateJson call in progress
NoGen ==
  [caller |-> "none", models |-> <<>>, modelIndex |-> 0, attempt |-> 0,
   phase |-> "idle", lastError |-> "none", reply |-> "none",
   requests |-> 0, repairs |-> 0, lastAnswer |-> "none", follows |-> {}]

NoCall ==
  [fn |-> "none", existing |-> <<>>, raw |-> <<>>, incoming |-> <<>>, result |-> <<>>,
   tools |-> <<>>, message |-> "", plans |-> <<>>, intent |-> "none",
   suggestions |-> NoSuggestions]

Record(op, message, startStage, classifier, o) ==
  [op |-> op, message |-> message, startStage |-> startStage,
   classifier |-> classifier, extraction |-> o.extraction, advisor |-> o.advisor,
   reply |-> o.reply, writes |-> o.writes,
   kept |-> IF "kept" \in DOMAIN o THEN o.kept ELSE 0,
   dropped |-> IF "dropped" \in DOMAIN o THEN o.dropped ELSE 0]

\* persistIntakeState (route.ts 183-191), once per element of writes
Persist(writes) ==
  /\ intake' = IF writes = <<>> THEN intake ELSE Last(writes)
  /\ stageCol' = IF writes = <<>> THEN stageCol ELSE Last(writes).stage

\* POST /api/chat outside demo mode
ChatTurn ==
  /\ ~demoMode
  /\ \E message \in Messages :
       \E r \in ChatOutcomes(loadIntakeState, userId, Trim(message)) :
         /\ turn' = Record("chat", message, loadIntakeState.stage, r.classifier, r.out)
         /\ Persist(r.out.writes)
  /\ UNCHANGED <<userId, demoMode, benchmarks, call>>
  /\ UNCHANGED limiterVars
  /\ UNCHANGED turnVars
  /\ UNCHANGED discoveryVars
  /\ UNCHANGED writerVars

\* POST /api/chat in demo mode (route.ts 731-766)
DemoTurn ==
  /\ demoMode
  /\ \E message \in Messages :
       LET o == Outcome("none", "none", "brief",
                        <<[lineItems |-> demoLineItems, planSuggestions |-> NoSuggestions,
                           stage |-> "briefed"]>>)
       IN /\ turn' = Record("demo", message, loadIntakeState.stage, "none", o)
          /\ Persist(o.writes)
  /\ UNCHANGED <<userId, demoMode, benchmarks, call>>
  /\ UNCHANGED limiterVars
  /\ UNCHANGED turnVars
  /\ UNCHANGED discoveryVars
  /\ UNCHANGED writerVars

\* the regenerate request without the empty-list rejection of
\* generate/route.ts 59-61
RegenerateOutcomesOnEmptyList ==
  IF userId = "none" THEN {Outcome("none", "none", "not_signed_in", <<>>)}
  ELSE {Outcome("none", "ok", "brief", <<[intake EXCEPT !.stage = "briefed"]>>),
        Outcome("none", "failed", "error_500", <<>>)}

\* POST /api/chat/generate (generate/route.ts 31-109); it reads the
\* document without the stage column
RegenerateOutcomes ==
  IF userId = "none" THEN {Outcome("none", "none", "not_signed_in", <<>>)}
  ELSE IF Len(intake.lineItems) = 0 THEN {Outcome("none", "none", "no_subscriptions", <<>>)}
  ELSE {Outcome("none", "ok", "brief", <<[intake EXCEPT !.stage = "briefed"]>>),
        Outcome("none", "failed", "error_500", <<>>)}

Regenerate ==
  /\ \E o \in RegenerateOutcomes :
       /\ turn' = Record("regenerate", "", intake.stage, "none", o)
       /\ Persist(o.writes)
  /\ UNCHANGED <<userId, demoMode, benchmarks, call>>
  /\ UNCHANGED limiterVars
  /\ UNCHANGED turnVars
  /\ UNCHANGED discoveryVars
  /\ UNCHANGED writerVars

\* the stage the OAuth callback stores (unnamed/part_004 100)
SignInStage(stage) == IF stage = "prompt_signin" THEN "ready" ELSE stage

\* GET of the OAuth callback carrying this chat session (unnamed/part_004 90-111)
SignIn ==
  /\ userId' = "user"
  /\ stageCol' = SignInStage(stageCol)
  /\ intake' = [intake EXCEPT !.stage = SignInStage(stageCol)]
  /\ turn' = Record("signin", "", stageCol, "none",
                    Outcome("none", "none", "redirect", <<>>))
  /\ UNCHANGED <<demoMode, benchmarks, call>>
  /\ UNCHANGED limiterVars
  /\ UNCHANGED turnVars
  /\ UNCHANGED discoveryVars
  /\ UNCHANGED writerVars

\* the process and the session before any request
\* no request is between its read of the session and its last write
NoReads == [callback |-> <<>>, regenerate |-> <<>>, chat |-> <<>>, stale |-> "none"]

Started ==
  /\ intake = EmptyIntake
  /\ stageCol = "collect"
  /\ userId = "none"
  /\ demoMode \in BOOLEAN
  /\ turn = Record("init", "", "collect", "none", Outcome("none", "none", "none", <<>>))
  /\ benchmarks = SAAS_BENCHMARKS
  /\ call = NoCall
  /\ LimiterInit
  /\ db = NoRows
  /\ inflight = [h \in Handlers |-> NoTurn]
  /\ gen = NoGen
  /\ inFlight = [name \in {} |-> 0]
  /\ attemptedTools = {}
  /\ discoveries = [h \in Handlers |-> NoDiscovery]
  /\ reads = NoReads

Init == Started /\ prisma = TRUE

Next == ChatTurn \/ DemoTurn \/ Regenerate \/ SignIn

\* the chat turns of a user settling the plans of the stored items
\* (route.ts POST, demo mode off)
PlanTurn ==
  /\ ~demoMode
  /\ \E message \in PlanMessages :
       \E r \in ChatOutcomes(loadIntakeState, userId, Trim(message)) :
         /\ turn' = Record("chat", message, loadIntakeState.stage, r.classifier, r.out)
         /\ Persist(r.out.writes)
  /\ UNCHANGED <<userId, demoMode, benchmarks, call>>
  /\ UNCHANGED limiterVars
  /\ UNCHANGED turnVars
  /\ UNCHANGED discoveryVars
  /\ UNCHANGED writerVars

PlansInit == Started /\ ~demoMode /\ prisma = TRUE

PlansNext == PlanTurn \/ SignIn

PlansSpec == PlansInit /\ [][PlansNext]_vars

Spec == Init /\ [][Next]_vars

\* ---------------------------------------------------------------------
\* The list functions on their own: the merge step of a collect turn
\* (route.ts 1147-1159), fed with what an extraction returned before the
\* schema parsed it, and the price check on the stored list.
\* ---------------------------------------------------------------------

Parsed(raw) == [i \in 1..Len(raw) |-> lineItemParse(raw[i])]

\* what the store or the research call finds for an unknown tool
Findings == {<<>>} \cup {<<b>> : b \in DiscoveredBenchmarks}

\* the benchmark lists ensureBenchmarksForTools can leave behind
EnsureOutcomes(tools) == {ensureBenchmarksForTools(tools, found) : found \in Findings}

MergeCall ==
  /\ \E raw \in RawLists :
       /\ call' = [fn |-> "mergeLineItems", existing |-> intake.lineItems, raw |-> raw,
                   incoming |-> Parsed(raw),
                   result |-> mergeLineItems(intake.lineItems, Parsed(raw)),
                   tools |-> <<>>, message |-> "", plans |-> <<>>, intent |-> "none",
                   suggestions |-> NoSuggestions]
       /\ intake' = [intake EXCEPT !.lineItems = call'.result]
       /\ benchmarks' \in EnsureOutcomes(ToolsOf(call'.result))
  /\ UNCHANGED <<stageCol, userId, demoMode, turn>>
  /\ UNCHANGED limiterVars
  /\ UNCHANGED turnVars
  /\ UNCHANGED discoveryVars
  /\ UNCHANGED writerVars

MissingPriceCall ==
  /\ call' = [fn |-> "missingPriceTools", existing |-> intake.lineItems, raw |-> <<>>,
              incoming |-> <<>>, result |-> <<>>,
              tools |-> missingPriceTools(intake.lineItems),
              message |-> "", plans |-> <<>>, intent |-> "none",
              suggestions |-> NoSuggestions]
  /\ UNCHANGED <<intake, stageCol, userId, demoMode, turn, benchmarks>>
  /\ UNCHANGED limiterVars
  /\ UNCHANGED turnVars
  /\ UNCHANGED discoveryVars
  /\ UNCHANGED writerVars

\* the plan lists suggestionForIntent is applied to: the first plans of
\* the longest benchmark
PlanLists == {SubSeq(SAAS_BENCHMARKS[4].plans, 1, n) : n \in 0..MaxPlans}

\* suggestionForIntent on a plan list and an intent (route.ts 472-480)
SuggestCall ==
  /\ \E plans \in PlanLists, intent \in {"low", "mid", "top"} :
       call' = [NoCall EXCEPT !.fn = "suggestionForIntent", !.plans = plans,
                              !.intent = intent,
                              !.result = suggestionForIntent(plans, intent)]
  /\ UNCHANGED <<intake, stageCol, userId, demoMode, turn, benchmarks>>
  /\ UNCHANGED limiterVars
  /\ UNCHANGED turnVars
  /\ UNCHANGED discoveryVars
  /\ UNCHANGED writerVars

\* mapTierSuggestions on a message and the tools that miss a plan, under
\* the benchmark list of the moment (route.ts 482-546, called at 1179)
TierCall ==
  /\ \E message \in TierMessages, tools \in TierToolLists :
       call' = [NoCall EXCEPT !.fn = "mapTierSuggestions", !.message = message,
                              !.tools = tools,
                              !.suggestions = mapTierSuggestions(message, tools)]
  /\ UNCHANGED <<intake, stageCol, userId, demoMode, turn, benchmarks>>
  /\ UNCHANGED limiterVars
  /\ UNCHANGED turnVars
  /\ UNCHANGED discoveryVars
  /\ UNCHANGED writerVars

MergeInit == Init /\ ~demoMode

MergeNext == MergeCall \/ MissingPriceCall \/ SuggestCall \/ TierCall

MergeSpec == MergeInit /\ [][MergeNext]_vars

\* the rate limiter alone, in front of a session nobody talks to
LimiterSpec == MergeInit /\ [][LimiterNext]_vars

\* ---------------------------------------------------------------------
\* One generateJson call (gemini.ts 143-218) and what its caller in POST
\* makes of it.  The service answers a request when it pleases, or never.
\* ---------------------------------------------------------------------

\* retries: 1, the option every caller passes
retries == 1

\* the callers in POST: the topic gate, the extraction, the advisory
Callers == {"classifier", "extraction", "advisor"}

\* models (gemini.ts 152-155): the default alone, or GEMINI_MODEL before it
ModelLists == {<<"default">>, <<"custom", "default">>}

\* what the service can answer to one generateContent request: a text
\* that parses into the schema, one that is no JSON, one that breaks the
\* schema, a 404, another error status (a server error, a refused key),
\* or no text
ServiceAnswers ==
  {"json", "malformed", "violation", "http404", "http500", "http403", "empty"}

\* gemini.ts 171-213 for an error other than a repairable one: the next
\* attempt, the next model after a 404, or the throw
AfterFailure(g, error) ==
  IF error = "http404"
    THEN IF g.modelIndex < Len(g.models)
           THEN [g EXCEPT !.modelIndex = @ + 1, !.attempt = 0, !.phase = "invoke",
                          !.lastError = error]
           ELSE [g EXCEPT !.phase = "thrown", !.lastError = error]
  ELSE IF g.attempt < retries
    THEN [g EXCEPT !.attempt = @ + 1, !.phase = "invoke", !.lastError = error]
  ELSE [g EXCEPT !.phase = "thrown", !.lastError = error]

\* gemini.ts 167-193: the answer to the attempt's request
AfterAnswer(g, answer) ==
  IF answer = "json" THEN [g EXCEPT !.phase = "returned"]
  ELSE IF answer \in {"malformed", "violation"}
    THEN [g EXCEPT !.phase = "repair", !.lastError = answer]
  ELSE AfterFailure(g, answer)

\* gemini.ts 179-192: the answer to the repair request
AfterRepair(g, answer) ==
  IF answer = "json" THEN [g EXCEPT !.phase = "returned"] ELSE AfterFailure(g, answer)

\* buildAdvisorErrorReply (route.ts 408-428) on the message of the error
buildAdvisorErrorReply(error) ==
  IF error = "timeout" THEN "timeout_reply"
  ELSE IF error = "key_missing" THEN "key_reply"
  ELSE IF error = "violation" THEN "format_reply"
  ELSE "failure_reply"

\* what the caller answers once the call has settled (route.ts 807-822,
\* 1124-1135, 1297-1329, 1353-1365)
CallerReply(g) ==
  IF g.phase = "returned"
    THEN (IF g.caller = "advisor" THEN "brief" ELSE "next_step")
  ELSE IF g.caller = "classifier" THEN "error_500"
  ELSE IF g.caller = "extraction" THEN "next_step"
  ELSE buildAdvisorErrorReply(g.lastError)

\* what the call does next after an answer: a repair request, a further
\* attempt on the same model, the first attempt on the next model, or no
\* request at all
Follow(g, next) ==
  IF next.phase = "repair" THEN "repair"
  ELSE IF next.phase # "invoke" THEN "none"
  ELSE IF next.modelIndex # g.modelIndex THEN "fallback"
  ELSE "attempt"

\* the call after an answer, with its requests counted: all of them, the
\* repair requests of the attempt, and which kind of request followed
\* which answer
Requested(g, answer, next) ==
  [next EXCEPT !.lastAnswer = answer,
               !.requests = IF Follow(g, next) = "none" THEN @ ELSE @ + 1,
               !.repairs = IF Follow(g, next) = "repair" THEN @ + 1
                           ELSE IF Follow(g, next) = "none" THEN @ ELSE 0,
               !.follows = IF Follow(g, next) = "none" THEN @
                           ELSE @ \cup {<<answer, Follow(g, next)>>}]

\* a caller starts generateJson (gemini.ts 143-158)
Generate ==
  /\ gen.phase \in {"idle", "replied"}
  /\ \E caller \in Callers, models \in ModelLists, apiKey \in BOOLEAN :
       gen' = IF apiKey
                THEN [NoGen EXCEPT !.caller = caller, !.models = models,
                                   !.modelIndex = 1, !.phase = "invoke",
                                   !.requests = 1]
                ELSE [NoGen EXCEPT !.caller = caller, !.models = models,
                                   !.phase = "thrown", !.lastError = "key_missing"]
  /\ UNCHANGED <<prisma, db, inflight>>
  /\ UNCHANGED discoveryVars
  /\ UNCHANGED writerVars
  /\ UNCHANGED sessionVars
  /\ UNCHANGED limiterVars

\* the service answers the fetch of invokeGemini (gemini.ts 99-140)
Answers ==
  /\ gen.phase = "invoke"
  /\ \E answer \in ServiceAnswers :
       gen' = Requested(gen, answer, AfterAnswer(gen, answer))
  /\ UNCHANGED <<prisma, db, inflight>>
  /\ UNCHANGED discoveryVars
  /\ UNCHANGED writerVars
  /\ UNCHANGED sessionVars
  /\ UNCHANGED limiterVars

\* the service answers the fetch of repairJsonOutput (gemini.ts 40-60)
AnswersRepair ==
  /\ gen.phase = "repair"
  /\ \E answer \in ServiceAnswers :
       gen' = Requested(gen, answer, AfterRepair(gen, answer))
  /\ UNCHANGED <<prisma, db, inflight>>
  /\ UNCHANGED discoveryVars
  /\ UNCHANGED writerVars
  /\ UNCHANGED sessionVars
  /\ UNCHANGED limiterVars

\* the caller goes on with the value or the error and the turn replies
Replies ==
  /\ gen.phase \in {"returned", "thrown"}
  /\ gen' = [gen EXCEPT !.phase = "replied", !.reply = CallerReply(gen)]
  /\ UNCHANGED <<prisma, db, inflight>>
  /\ UNCHANGED discoveryVars
  /\ UNCHANGED writerVars
  /\ UNCHANGED sessionVars
  /\ UNCHANGED limiterVars

GenNext == Generate \/ Answers \/ AnswersRepair \/ Replies

\* the process runs whatever is ready to run; nothing makes the service
\* answer
GenSpec == MergeInit /\ [][GenNext]_vars /\ WF_vars(Replies)

\* ---------------------------------------------------------------------
\* Chat turns side by side.  POST is cut where it awaits the store: the
\* rate-limit answer (Arrive); the body, the session, the user message
\* and the read of the intake state, up to the first persistIntakeState
\* (Begin); each persistIntakeState (Write); the assistant message and
\* the response (Finish, Return).
\* ---------------------------------------------------------------------

\* the messages of the turns that run side by side
TurnMessages == {"business", " Nope "}

\* request bodies: with and without a session id, and three that
\* chatTurnRequestSchema refuses
Bodies ==
  {[message |-> m, sessionId |-> "s1"] : m \in TurnMessages}
    \cup {[message |-> m] : m \in TurnMessages}
    \cup {[sessionId |-> "s1"], [message |-> ""], [message |-> "business", sessionId |-> ""]}

\* chatTurnRequestSchema.safeParse(body).success (contracts.ts 13-16)
validBody(body) ==
  /\ "message" \in DOMAIN body
  /\ Len(body.message) >= 1
  /\ Len(body.message) <= 4000
  /\ "sessionId" \in DOMAIN body
       => Len(body.sessionId) >= 1 /\ Len(body.sessionId) <= 191

\* ensureSessionId without its !prisma test
ensureSessionIdUnguarded(store, rows, body) ==
  IF "sessionId" \in DOMAIN body /\ rows.sessions > 0 THEN rows
  ELSE [rows EXCEPT !.sessions = @ + 1]

\* ensureSessionId (route.ts 142-160): the rows it leaves; the session of
\* the id is found when there is one, and created otherwise
ensureSessionId(store, rows, body) ==
  IF ~store THEN rows
  ELSE IF "sessionId" \in DOMAIN body /\ rows.sessions > 0 THEN rows
  ELSE [rows EXCEPT !.sessions = @ + 1]

\* persistMessage (route.ts 214-232): the rows it leaves
persistMessage(store, rows) ==
  IF ~store \/ rows.sessions = 0 THEN rows ELSE [rows EXCEPT !.messages = @ + 1]

\* the start of POST creating the session before it looks at the body
AfterBodySessionFirst(store, rows, body) ==
  IF validBody(body) THEN persistMessage(store, ensureSessionId(store, rows, body))
  ELSE ensureSessionId(store, rows, body)

\* route.ts 718-775: the rows after the body was parsed and, if valid,
\* the session ensured and the user message stored
AfterBody(store, rows, body) ==
  IF validBody(body) THEN persistMessage(store, ensureSessionId(store, rows, body))
  ELSE rows

\* a turn without a store: no intake state, so the topic gate is asked
\* and an allowed message goes to the open conversation (route.ts 777-836,
\* 1289-1352)
StatelessOutcomes ==
  LET gate(c, outs) == {[classifier |-> c, out |-> o] : o \in outs}
  IN gate("allowed", OpenConversation)
       \cup gate("disallowed", {Outcome("none", "none", "off_topic", <<>>)})
       \cup gate("failed", {Outcome("none", "none", "error_500", <<>>)})

\* the outcomes of the turn of a handler that read state, or none
TurnOutcomes(store, read, user, userMessage) ==
  IF store THEN ChatOutcomes(read, user, userMessage) ELSE StatelessOutcomes

\* the write refused when the stored state is no longer the one read
persistIfUnchanged(current, read, state) == IF current = read THEN state ELSE current

\* persistIntakeState (route.ts 183-191): the document the update leaves,
\* current being the one stored and read the one the turn started from
persistIntakeState(current, read, state) == state

\* a request of the one client of the run arrives and is taken up by the
\* first handler that is free; no time passes during the run, so the
\* limiter turns the client away once its window is full
Request(h) ==
  /\ \A g \in Handlers : g < h => handlers[g] # "idle"
  /\ Arrive(h)
  /\ verdict'.ip = "unknown"

\* route.ts 718-1352 up to the first persistIntakeState: the body is
\* parsed and an invalid one answered 400; otherwise the session is
\* ensured, the user message stored, the intake state read and the turn
\* decided on it by what the collaborators answer.  A client sends no
\* session id only as long as it has not been given one.
Begin(h) ==
  /\ handlers[h] = "admitted"
  /\ \E body \in Bodies :
       /\ (validBody(body) /\ "sessionId" \notin DOMAIN body) => db.sessions = 0
       /\ db' = AfterBody(prisma, db, body)
       /\ IF ~validBody(body)
            THEN /\ inflight' = [inflight EXCEPT ![h] =
                                   [NoTurn EXCEPT !.status = 400, !.reply = "invalid_payload"]]
                 /\ handlers' = [handlers EXCEPT ![h] = "answered"]
            ELSE /\ \E r \in TurnOutcomes(prisma, loadIntakeState, userId, Trim(body.message)) :
                      inflight' = [inflight EXCEPT ![h] =
                        [status |-> IF r.out.reply = "error_500" THEN 500 ELSE 200,
                         reply |-> r.out.reply,
                         read |-> IF prisma THEN <<loadIntakeState>> ELSE <<>>,
                         pending |-> r.out.writes,
                         wrote |-> <<>>]]
                 /\ handlers' = [handlers EXCEPT ![h] = "working"]
  /\ UNCHANGED <<prisma, gen>>
  /\ UNCHANGED discoveryVars
  /\ UNCHANGED writerVars
  /\ UNCHANGED sessionVars
  /\ UNCHANGED <<rateLimitStore, clock, verdict, admitted>>

\* a persistIntakeState call of the turn: the document and the stage
\* column are set together
Write(h) ==
  /\ handlers[h] = "working"
  /\ inflight[h].pending # <<>>
  /\ intake' = persistIntakeState(intake, inflight[h].read[1], Head(inflight[h].pending))
  /\ stageCol' = intake'.stage
  /\ inflight' = [inflight EXCEPT ![h].pending = Tail(@),
                                   ![h].wrote = Append(@, Head(inflight[h].pending))]
  /\ UNCHANGED <<prisma, db, gen>>
  /\ UNCHANGED discoveryVars
  /\ UNCHANGED writerVars
  /\ UNCHANGED <<userId, demoMode, turn, benchmarks, call>>
  /\ UNCHANGED limiterVars

\* the assistant message is stored, unless the request ended in the
\* outer catch, and the reply of the turn leaves
Finish(h) ==
  /\ handlers[h] = "working"
  /\ inflight[h].pending = <<>>
  /\ db' = IF inflight[h].status = 200 THEN persistMessage(prisma, db) ELSE db
  /\ handlers' = [handlers EXCEPT ![h] = "idle"]
  /\ inflight' = [inflight EXCEPT ![h] = NoTurn]
  /\ UNCHANGED <<prisma, gen>>
  /\ UNCHANGED discoveryVars
  /\ UNCHANGED writerVars
  /\ UNCHANGED sessionVars
  /\ UNCHANGED <<rateLimitStore, clock, verdict, admitted>>

\* the 429 or the 400 leaves
Return(h) ==
  /\ handlers[h] \in {"rejected", "answered"}
  /\ handlers' = [handlers EXCEPT ![h] = "idle"]
  /\ inflight' = [inflight EXCEPT ![h] = NoTurn]
  /\ UNCHANGED <<prisma, db, gen>>
  /\ UNCHANGED discoveryVars
  /\ UNCHANGED writerVars
  /\ UNCHANGED sessionVars
  /\ UNCHANGED <<rateLimitStore, clock, verdict, admitted>>

\* a process with or without a store
TurnInit == Started /\ ~demoMode /\ prisma \in BOOLEAN

TurnNext ==
  \/ \E h \in Handlers : Request(h)
  \/ \E h \in Handlers : Begin(h)
  \/ \E h \in Handlers : Write(h)
  \/ \E h \in Handlers : Finish(h)
  \/ \E h \in Handlers : Return(h)

TurnSpec == TurnInit /\ [][TurnNext]_vars

\* ---------------------------------------------------------------------
\* Benchmark discovery under concurrent callers (gemini.ts 447-452,
\* 622-682).  ensureTool runs without an await up to the first await of
\* discoverAndPersistTool; the discovery then goes on through its awaits
\* (the store, the research call, the store again) while other handlers
\* call ensureTool.  A promise is named by the handler that started it.
\* ---------------------------------------------------------------------

\* the tool names ensureBenchmarksForTools hands to ensureTool
DiscoveryTools == {"Linear", " linear ", "Slack"}

\* ensureTool never finding a promise in flight
existingNone(entries, normalized) == 0

\* inFlight.get(normalized) (gemini.ts 657): the promise kept under the
\* name, 0 for undefined
existing(entries, normalized) ==
  IF normalized \in DOMAIN entries THEN entries[normalized] ELSE 0

\* discoverAndPersistTool up to its first await (gemini.ts 622-628): it
\* returns at once for a known tool, else it asks the store
StartPhase(list, tool) ==
  IF normalizeTool(tool) = "" \/ Known(list, tool) # 0 THEN "settled" ELSE "loading"

\* inFlight.delete(normalized)
Deleted(entries, normalized) ==
  [name \in (DOMAIN entries) \ {normalized} |-> entries[name]]

\* ensureTool (gemini.ts 651-667): the caller is handed the promise in
\* flight under the name, or starts a discovery and keeps its promise
\* under the name
EnsureTool(h) ==
  /\ discoveries[h] = NoDiscovery
  /\ \E tool \in DiscoveryTools :
       IF existing(inFlight, normalizeTool(tool)) # 0
         THEN /\ discoveries' = [discoveries EXCEPT ![h] =
                   [tool |-> tool, awaits |-> existing(inFlight, normalizeTool(tool)),
                    phase |-> "none"]]
              /\ UNCHANGED inFlight
         ELSE /\ discoveries' = [discoveries EXCEPT ![h] =
                   [tool |-> tool, awaits |-> h, phase |-> StartPhase(benchmarks, tool)]]
              /\ inFlight' = With(inFlight, normalizeTool(tool), h)
  /\ UNCHANGED attemptedTools
  /\ UNCHANGED sessionVars
  /\ UNCHANGED limiterVars
  /\ UNCHANGED turnVars
  /\ UNCHANGED writerVars

\* loadBenchmarkFromDb answers (gemini.ts 629-637): with a row, which is
\* registered; with an error; or with nothing, and then research starts
\* unless it was started for the name before
LoadAnswers(h) ==
  /\ discoveries[h].phase = "loading"
  /\ \/ /\ \E b \in DiscoveredBenchmarks :
             benchmarks' = registerBenchmark(benchmarks, Converted[b])
        /\ discoveries' = [discoveries EXCEPT ![h].phase = "settled"]
        /\ UNCHANGED attemptedTools
     \/ /\ discoveries' = [discoveries EXCEPT ![h].phase = "settled"]
        /\ UNCHANGED <<benchmarks, attemptedTools>>
     \/ /\ discoveries' = [discoveries EXCEPT ![h].phase =
             IF normalizeTool(discoveries[h].tool) \in attemptedTools THEN "settled"
             ELSE "discovering"]
        /\ attemptedTools' = attemptedTools \cup {normalizeTool(discoveries[h].tool)}
        /\ UNCHANGED benchmarks
  /\ UNCHANGED inFlight
  /\ UNCHANGED <<intake, stageCol, userId, demoMode, turn, call>>
  /\ UNCHANGED limiterVars
  /\ UNCHANGED turnVars
  /\ UNCHANGED writerVars

\* discoverBenchmark answers (gemini.ts 639-645): with nothing, or with a
\* benchmark, which is registered and then stored
ResearchAnswers(h) ==
  /\ discoveries[h].phase = "discovering"
  /\ \/ /\ discoveries' = [discoveries EXCEPT ![h].phase = "settled"]
        /\ UNCHANGED benchmarks
     \/ /\ \E b \in DiscoveredBenchmarks :
             benchmarks' = registerBenchmark(benchmarks, Converted[b])
        /\ discoveries' = [discoveries EXCEPT ![h].phase = "persisting"]
  /\ UNCHANGED <<inFlight, attemptedTools>>
  /\ UNCHANGED <<intake, stageCol, userId, demoMode, turn, call>>
  /\ UNCHANGED limiterVars
  /\ UNCHANGED turnVars
  /\ UNCHANGED writerVars

\* persistBenchmarkToDb answers (gemini.ts 645-648), with or without an
\* error
PersistAnswers(h) ==
  /\ discoveries[h].phase = "persisting"
  /\ discoveries' = [discoveries EXCEPT ![h].phase = "settled"]
  /\ UNCHANGED <<inFlight, attemptedTools>>
  /\ UNCHANGED sessionVars
  /\ UNCHANGED limiterVars
  /\ UNCHANGED turnVars
  /\ UNCHANGED writerVars

\* the finally callback (gemini.ts 662-664) deletes the entry of the
\* name, and the callers that await the promise go on
Settles(h) ==
  /\ discoveries[h].phase = "settled"
  /\ inFlight' = Deleted(inFlight, normalizeTool(discoveries[h].tool))
  /\ discoveries' = [g \in Handlers |->
                       IF discoveries[g].awaits = h THEN NoDiscovery ELSE discoveries[g]]
  /\ UNCHANGED attemptedTools
  /\ UNCHANGED sessionVars
  /\ UNCHANGED limiterVars
  /\ UNCHANGED turnVars
  /\ UNCHANGED writerVars

DiscoveryNext ==
  \/ \E h \in Handlers : EnsureTool(h)
  \/ \E h \in Handlers : LoadAnswers(h)
  \/ \E h \in Handlers : ResearchAnswers(h)
  \/ \E h \in Handlers : PersistAnswers(h)
  \/ \E h \in Handlers : Settles(h)

DiscoverySpec == MergeInit /\ [][DiscoveryNext]_vars

\* ---------------------------------------------------------------------
\* The writers of one session, interleaved.  A request reads the session,
\* waits for its collaborators and writes; between its read and its
\* write the other writers take their steps.  Every write is one
\* chatSession.update.
\* ---------------------------------------------------------------------

\* the user messages of the interleaved chat turns
WriterMessages == {" Nope "}

\* the document of the regenerate request as it was read
RegenerateIntakeAsRead(state) == state

\* the document the regenerate request stores (generate/route.ts 99):
\* { ...state, stage: "briefed" }
RegenerateIntake(state) == [state EXCEPT !.stage = "briefed"]

\* the document the OAuth callback stores from what it read
\* (unnamed/part_004 96-101): { ...intake, stage: nextStage }
CallbackIntake(session) ==
  [session.intake EXCEPT !.stage = SignInStage(session.stage)]

\* the write was made from a read that is no longer what is stored
Stale(writer, read) == IF read # intake THEN writer ELSE reads.stale

\* the callback reads the session (unnamed/part_004 91-94)
CallbackReads ==
  /\ reads.callback = <<>>
  /\ reads' = [reads EXCEPT !.callback = <<[intake |-> intake, stage |-> stageCol]>>]
  /\ UNCHANGED sessionVars
  /\ UNCHANGED limiterVars
  /\ UNCHANGED turnVars
  /\ UNCHANGED discoveryVars

\* the callback's chatSession.update (unnamed/part_004 103-110)
CallbackWrites ==
  /\ reads.callback # <<>>
  /\ LET session == reads.callback[1]
     IN /\ userId' = "user"
        /\ stageCol' = SignInStage(session.stage)
        /\ intake' = CallbackIntake(session)
        /\ reads' = [reads EXCEPT !.callback = <<>>,
                                   !.stale = Stale("callback", session.intake)]
  /\ UNCHANGED <<demoMode, turn, benchmarks, call>>
  /\ UNCHANGED limiterVars
  /\ UNCHANGED turnVars
  /\ UNCHANGED discoveryVars

\* the regenerate request reads the session of its user and finds
\* subscriptions in it (generate/route.ts 35-61)
RegenerateReads ==
  /\ reads.regenerate = <<>>
  /\ userId # "none"
  /\ Len(intake.lineItems) > 0
  /\ reads' = [reads EXCEPT !.regenerate = <<intake>>]
  /\ UNCHANGED sessionVars
  /\ UNCHANGED limiterVars
  /\ UNCHANGED turnVars
  /\ UNCHANGED discoveryVars

\* generateJson throws and the request ends without a write
\* (generate/route.ts 78-84)
RegenerateFails ==
  /\ reads.regenerate # <<>>
  /\ reads' = [reads EXCEPT !.regenerate = <<>>]
  /\ UNCHANGED sessionVars
  /\ UNCHANGED limiterVars
  /\ UNCHANGED turnVars
  /\ UNCHANGED discoveryVars

\* the regenerate request's chatSession.update (generate/route.ts 97-100)
RegenerateWrites ==
  /\ reads.regenerate # <<>>
  /\ LET state == reads.regenerate[1]
     IN /\ stageCol' = "briefed"
        /\ intake' = RegenerateIntake(state)
        /\ reads' = [reads EXCEPT !.regenerate = <<>>,
                                   !.stale = Stale("regenerate", state)]
  /\ UNCHANGED <<userId, demoMode, turn, benchmarks, call>>
  /\ UNCHANGED limiterVars
  /\ UNCHANGED turnVars
  /\ UNCHANGED discoveryVars

\* a chat turn loads the session and its collaborators answer: the
\* states it will hand to persistIntakeState are decided (route.ts 838-840)
ChatReads ==
  /\ ~demoMode
  /\ reads.chat = <<>>
  /\ \E message \in WriterMessages :
       \E r \in ChatOutcomes(loadIntakeState, userId, Trim(message)) :
         /\ r.out.writes # <<>>
         /\ reads' = [reads EXCEPT !.chat = r.out.writes]
  /\ UNCHANGED sessionVars
  /\ UNCHANGED limiterVars
  /\ UNCHANGED turnVars
  /\ UNCHANGED discoveryVars

\* the chat turn's next persistIntakeState (route.ts 183-191)
ChatWrites ==
  /\ reads.chat # <<>>
  /\ intake' = Head(reads.chat)
  /\ stageCol' = Head(reads.chat).stage
  /\ reads' = [reads EXCEPT !.chat = Tail(reads.chat)]
  /\ UNCHANGED <<userId, demoMode, turn, benchmarks, call>>
  /\ UNCHANGED limiterVars
  /\ UNCHANGED turnVars
  /\ UNCHANGED discoveryVars

WritersNext ==
  \/ CallbackReads \/ CallbackWrites
  \/ RegenerateReads \/ RegenerateFails \/ RegenerateWrites
  \/ ChatReads \/ ChatWrites
  \/ DemoTurn

WritersSpec == Init /\ [][WritersNext]_vars

\* ---------------------------------------------------------------------
\* Properties of the stage machine
\* ---------------------------------------------------------------------

\* an item that is missing neither its plan nor its price
Complete(item) == ~PlanMissing(item) /\ ~PriceMissing(item)

AllComplete(items) == \A i \in 1..Len(items) : Complete(items[i])

\* what the classifiers of route.ts say of the message of a chat turn
Heard(t) == Said(Trim(t.message))

\* every state a request handed to persistIntakeState, and the stored one
Persisted == {turn.writes[i] : i \in 1..Len(turn.writes)} \cup {loadIntakeState, intake}

\* C1: in every reachable state, and in every state a request persisted on
\* its way, stage ready or confirm_more implies a non-empty lineItems.
C1_ReadyOrConfirmMoreHasItems ==
  \A st \in Persisted : st.stage \in {"ready", "confirm_more"} => Len(st.lineItems) > 0

\* a negative reply has rerouted a non-empty list to confirm_more
C1_Witness ==
  /\ turn.op = "chat" /\ turn.startStage = "collect"
  /\ Heard(turn).isNegative /\ turn.extraction = "none"
  /\ stageCol = "confirm_more" /\ Len(intake.lineItems) > 0

\* C2: in stages confirm_more and ready every line item is complete: it has
\* a non-blank plan and a price (annualCost or annualCostPerSeat).
C2_ConfirmingImpliesComplete ==
  stageCol \in {"confirm_more", "ready"} => AllComplete(intake.lineItems)

\* C3: a chat turn that starts in collect, passes the topic gate and whose
\* message is neither negative nor a list request ends in confirm_more
\* exactly when the list it persisted (merge and autofill applied) is
\* non-empty and complete; otherwise it ends in collect or confirm_plans.
C3_CollectTurnStage ==
  [][(/\ turn'.op = "chat" /\ turn'.startStage = "collect"
      /\ turn'.classifier \in {"bypass", "allowed"}
      /\ ~Heard(turn').isNegative /\ ~Heard(turn').looksLikeListRequest)
     => /\ turn'.extraction # "none"
        /\ stageCol' = "confirm_more"
             <=> (Len(intake'.lineItems) > 0 /\ AllComplete(intake'.lineItems))
        /\ stageCol' \in {"collect", "confirm_plans", "confirm_more"}]_vars

\* a collect turn that ended in confirm_more on a list priced per seat only
C3_Witness ==
  /\ turn.op = "chat" /\ turn.startStage = "collect" /\ turn.extraction = "ok"
  /\ ~Heard(turn).isNegative /\ ~Heard(turn).looksLikeListRequest
  /\ stageCol = "confirm_more"
  /\ \E i \in 1..Len(intake.lineItems) : ~Has(intake.lineItems[i], "annualCost")

\* the stage a confirm_more turn must reach by the class of its reply, the
\* negative class being persisted as ready before the advisory call
ConfirmMoreByClass(t, before, after, col) ==
  /\ after.lineItems = before.lineItems
  /\ IF Heard(t).isAffirmative THEN col = "collect" /\ t.advisor = "none"
     ELSE IF Heard(t).isNegative
       THEN /\ Len(t.writes) > 0 /\ t.writes[1].stage = "ready"
            /\ t.advisor # "none"
            /\ col = (IF t.advisor = "ok" THEN "briefed" ELSE "ready")
     ELSE col = "confirm_more" /\ t.writes = <<>>

\* C4 as stated: in confirm_more the class of the reply alone decides the
\* next stage (affirmative to collect, negative to ready, anything else
\* re-asked with the state unchanged), and lineItems is never changed.
C4_ReplyClassAlone ==
  [][(turn'.op = "chat" /\ turn'.startStage = "confirm_more")
     => ConfirmMoreByClass(turn', intake, intake', stageCol')]_vars

\* C4, amended: the same for a reply that is not a list request; a list
\* request is answered with the summary and changes nothing.
C4_ReplyClassUnlessListRequest ==
  [][(turn'.op = "chat" /\ turn'.startStage = "confirm_more")
     => IF Heard(turn').looksLikeListRequest
          THEN /\ turn'.writes = <<>> /\ turn'.reply = "summary"
               /\ intake' = intake /\ stageCol' = stageCol
          ELSE ConfirmMoreByClass(turn', intake, intake', stageCol')]_vars

\* a negative reply in confirm_more whose advisory call failed: stage ready
C4_Witness ==
  /\ turn.op = "chat" /\ turn.startStage = "confirm_more"
  /\ Heard(turn).isNegative /\ ~Heard(turn).looksLikeListRequest
  /\ turn.advisor = "failed" /\ stageCol = "ready"

NotRerouted(t) == t.extraction = "none" => t.writes = <<>>

\* the reroute itself: confirm_more, no extraction, lineItems as they were
Rerouted(t, before, after, col) ==
  /\ col = "confirm_more" /\ t.extraction = "none" /\ t.reply = "ask_more"
  /\ after.lineItems = before.lineItems

\* C6 as stated: a negative reply in collect or confirm_plans moves a
\* non-empty list to confirm_more without extraction and without changing
\* lineItems; with an empty list it is not rerouted.
C6_NegativeReroutes ==
  [][(/\ turn'.op = "chat" /\ turn'.startStage \in {"collect", "confirm_plans"}
      /\ Heard(turn').isNegative)
     => IF Len(intake.lineItems) > 0
          THEN Rerouted(turn', intake, intake', stageCol')
          ELSE NotRerouted(turn')]_vars

\* C6, amended: the reroute happens in collect only, and for a reply that
\* is not a list request; in confirm_plans, and for a list request, a
\* negative reply persists nothing.
C6_NegativeReroutesInCollect ==
  [][(/\ turn'.op = "chat" /\ turn'.startStage \in {"collect", "confirm_plans"}
      /\ Heard(turn').isNegative)
     => IF Heard(turn').looksLikeListRequest \/ turn'.startStage = "confirm_plans"
          THEN turn'.writes = <<>> /\ intake' = intake /\ stageCol' = stageCol
        ELSE IF Len(intake.lineItems) > 0
          THEN Rerouted(turn', intake, intake', stageCol')
          ELSE NotRerouted(turn')]_vars

\* a negative reply in collect, on a list still missing a plan, rerouted
C6_Witness ==
  /\ turn.op = "chat" /\ turn.startStage = "collect"
  /\ Heard(turn).isNegative /\ ~Heard(turn).looksLikeListRequest
  /\ turn.reply = "ask_more" /\ stageCol = "confirm_more"
  /\ Len(missingPlanTools(intake.lineItems)) > 0

\* C7: a turn whose merged list is empty persists stage collect and
\* replies with the generic prompt; and no state, stored or persisted on
\* the way, has an empty lineItems and a stage other than collect.
C7_EmptyListMeansCollect ==
  /\ \A st \in Persisted : Len(st.lineItems) = 0 => st.stage = "collect"
  /\ (turn.op = "chat" /\ turn.extraction # "none" /\ Len(intake.lineItems) = 0)
       => /\ turn.writes # <<>> /\ Last(turn.writes).stage = "collect"
          /\ stageCol = "collect" /\ turn.reply = "tell_subscriptions"

\* a turn whose extraction succeeded and whose merged list is empty
C7_Witness ==
  /\ turn.op = "chat" /\ turn.extraction = "ok"
  /\ turn.reply = "tell_subscriptions" /\ Len(intake.lineItems) = 0

\* C8: a chat turn that finds stage briefed persists nothing, runs no
\* extraction, and leaves stage, lineItems and planSuggestions as stored.
C8_BriefedIsFinal ==
  [][((turn'.op = "chat" \/ turn'.op = "demo") /\ stageCol = "briefed")
     => /\ intake' = intake /\ stageCol' = stageCol
        /\ turn'.op = "chat" => turn'.writes = <<>> /\ turn'.extraction = "none"]_vars

\* a negative reply after the brief, answered as open-ended conversation
C8_Witness ==
  /\ turn.op = "chat" /\ turn.startStage = "briefed"
  /\ Heard(turn).isNegative /\ turn.reply = "brief" /\ stageCol = "briefed"

\* the item has no plan (route.ts 865: !item.plan)
NoPlan(item) == ~Has(item, "plan") \/ item.plan = ""

\* C9: in confirm_plans on "correct" or "yes" every tool with exactly one
\* suggestion and no plan gets that suggestion as its plan, and the reply
\* re-asks for the tools that have more than one.
C9_AcceptFillsUnambiguous ==
  [][(/\ turn'.op = "chat" /\ turn'.startStage = "confirm_plans"
      /\ Heard(turn').normalized \in {"correct", "yes"})
     => LET sug == intake.planSuggestions
        IN /\ \A i \in 1..Len(intake.lineItems) :
                LET item == intake.lineItems[i]
                IN (/\ NoPlan(item) /\ item.tool \in DOMAIN sug
                    /\ Len(sug[item.tool]) = 1)
                   => /\ Len(intake'.lineItems) >= i
                      /\ Has(intake'.lineItems[i], "plan")
                      /\ intake'.lineItems[i].plan = sug[item.tool][1]
           /\ (\E t \in DOMAIN sug : Len(sug[t]) > 1) => turn'.reply = "pick_plan"]_vars

\* the tools of the stored suggestions that have two options
TwoOptionTools(st) == {t \in DOMAIN st.planSuggestions : Len(st.planSuggestions[t]) = 2}

\* the options of the one two-option tool that the reply names
NamedOptions(st, t) ==
  IF Cardinality(TwoOptionTools(st)) # 1 THEN {}
  ELSE LET tool == CHOOSE x \in TwoOptionTools(st) : TRUE
       IN {<<tool, st.planSuggestions[tool][i]>> : i \in
             {j \in 1..2 : ToLower(st.planSuggestions[tool][j]) = Heard(t).normalized}}

\* the first half of C10: a named option becomes the plan of its tool and
\* the stage leaves confirm_plans
OptionTaken(t, before, after, col) ==
  \A o \in NamedOptions(before, t) :
    /\ col # "confirm_plans"
    /\ Len(after.lineItems) = Len(before.lineItems)
    /\ \A i \in 1..Len(before.lineItems) :
         before.lineItems[i].tool = o[1]
           => Has(after.lineItems[i], "plan") /\ after.lineItems[i].plan = o[2]

Accepting(t) == Heard(t).normalized \in {"correct", "looks good", "yes"}

\* C10 as stated: in confirm_plans with exactly one two-option tool a reply
\* equal to one option (case-insensitively) sets that plan and leaves
\* confirm_plans; a reply that is neither an acceptance word nor such an
\* option leaves the state unchanged and re-prompts.
C10_OptionOrReprompt ==
  [][(turn'.op = "chat" /\ turn'.startStage = "confirm_plans" /\ ~Accepting(turn'))
     => IF NamedOptions(intake, turn') # {}
          THEN OptionTaken(turn', intake, intake', stageCol')
          ELSE /\ intake' = intake /\ stageCol' = stageCol
               /\ turn'.reply = "confirm_plans_reprompt"]_vars

\* C10, amended: the same, except that a list request among the other
\* replies is answered with the summary instead of the re-prompt.
C10_OptionOrRepromptUnlessListRequest ==
  [][(turn'.op = "chat" /\ turn'.startStage = "confirm_plans" /\ ~Accepting(turn'))
     => IF NamedOptions(intake, turn') # {}
          THEN OptionTaken(turn', intake, intake', stageCol')
          ELSE /\ intake' = intake /\ stageCol' = stageCol
               /\ turn'.reply = (IF Heard(turn').looksLikeListRequest
                                   THEN "summary" ELSE "confirm_plans_reprompt")]_vars

\* "business" chose between Plus and Business for Notion
C10_Witness ==
  /\ turn.op = "chat" /\ turn.startStage = "confirm_plans"
  /\ Heard(turn).normalized = "business" /\ stageCol = "collect"
  /\ \E i \in 1..Len(intake.lineItems) :
       /\ intake.lineItems[i].tool = "Notion"
       /\ Has(intake.lineItems[i], "plan") /\ intake.lineItems[i].plan = "Business"

\* ---------------------------------------------------------------------
\* Stage edges
\* ---------------------------------------------------------------------

\* the request passed through stage ready on its way: it started there or
\* it persisted a state with stage ready before its last write
ThroughReady(from, t) ==
  \/ from = "ready"
  \/ \E i \in 1..Len(t.writes) : t.writes[i].stage = "ready"

\* C11: outside demo mode, a request that moves the session's stage to
\* briefed from another stage started in ready or passed through ready
\* after a successful advisory generation; no chat turn, regenerate
\* request or sign-in completion takes collect, confirm_plans,
\* confirm_more or prompt_signin directly to briefed.
C11_BriefedOnlyFromReady ==
  [][(~demoMode /\ stageCol' = "briefed" /\ stageCol # "briefed")
       => (ThroughReady(stageCol, turn') /\ turn'.advisor = "ok")]_vars

\* C12: a chat turn that brings a session without an authenticated
\* identity to stage ready leaves it in prompt_signin, where it waits for
\* the sign-in completion.
C12_UnauthenticatedReadyPromptsSignIn ==
  [][(turn'.op = "chat" /\ userId = "none"
        /\ \E i \in 1..Len(turn'.writes) : turn'.writes[i].stage = "ready")
       => stageCol' = "prompt_signin"]_vars

\* ---------------------------------------------------------------------
\* Properties of the merge
\* ---------------------------------------------------------------------

Merging(c) == c.fn = "mergeLineItems"

\* every tool name of the list is the canonical name the benchmark list
\* gives it
Canonical(items) ==
  \A i \in 1..Len(items) : canonicalToolName(items[i].tool) = items[i].tool

\* C13 as stated: merging the empty list into an existing list returns
\* the existing list unchanged.
C13_EmptyMergeIsIdentity ==
  (Merging(call) /\ call.incoming = <<>>) => call.result = call.existing

\* C13: merging the empty list keeps the length, the order and every
\* field of the existing items except the tool name, which becomes the
\* canonical name under the benchmark list of the moment; a list whose tool
\* names are already canonical is returned unchanged.
C13_EmptyMergeCanonicalizes ==
  [][(Merging(call') /\ call'.incoming = <<>>)
       => /\ Len(call'.result) = Len(call'.existing)
          /\ \A i \in 1..Len(call'.existing) :
               call'.result[i] = With(call'.existing[i], "tool",
                                      canonicalToolName(call'.existing[i].tool))
          /\ (Canonical(call'.existing) => call'.result = call'.existing)]_vars

C13_Witness ==
  /\ Merging(call) /\ call.incoming = <<>>
  /\ Len(call.existing) >= 2
  /\ call.result # call.existing
  /\ \E i \in 1..Len(call.existing) : call.result[i] = call.existing[i]

\* the positions of the existing list that hold the tool of the single
\* incoming item, compared as the merge compares them
Matches(c) ==
  {j \in 1..Len(c.existing) :
     normalizeToolName(c.existing[j].tool)
       = normalizeToolName(canonicalToolName(c.incoming[1].tool))}

\* the existing item with the incoming item's fields laid over it, the
\* tool name staying the existing one
Overlaid(current, candidate) ==
  [k \in (DOMAIN current) \cup (DOMAIN candidate) |->
     IF k = "tool" THEN current.tool
     ELSE IF k \in DOMAIN candidate THEN candidate[k] ELSE current[k]]

Vendor(item) == normalizeToolName(canonicalToolName(item.tool))

\* C15: no two line items of the stored list have the same canonical
\* tool, compared case-insensitively after alias resolution, whatever was
\* merged in one turn or across turns and whatever discovery registered.
C15_OneItemPerCanonicalTool ==
  \A i, j \in 1..Len(intake.lineItems) :
    Vendor(intake.lineItems[i]) = Vendor(intake.lineItems[j]) => i = j

DataFields == {"plan", "seats", "annualCost", "annualCostPerSeat", "term", "notes"}

\* the item has a value for the field: the key is there and, for the
\* plan, it is not blank (missingPlanTools reports a blank plan as missing)
Valued(item, k) == Has(item, k) /\ (k = "plan" => ~PlanMissing(item))

\* C16: a merge loses no data: every field that has a value on an
\* existing item still has a value on the item at the same position of the
\* merged list.
C16_MergeKeepsValues ==
  Merging(call)
    => \A i \in 1..Len(call.existing) : \A k \in DataFields :
         Valued(call.existing[i], k) => Valued(call.result[i], k)

\* C17: when the one item of an extraction does not state a currency,
\* every existing item keeps its currency after the merge; USD is only
\* given to an item that had none.
C17_UnstatedCurrencyKeepsExisting ==
  (Merging(call) /\ Len(call.raw) = 1 /\ ~Has(call.raw[1], "currency"))
    => \A i \in 1..Len(call.existing) :
         call.result[i].currency = call.existing[i].currency

\* ---------------------------------------------------------------------
\* Tool names
\* ---------------------------------------------------------------------

Placeholders == {"", "unknown", "n/a", "na", "none"}

Named(items) ==
  \A i \in 1..Len(items) :
    items[i].tool # "" /\ normalizeToolName(items[i].tool) \notin Placeholders

Amount(item, k) == Has(item, k) /\ item[k] \in Nat

Unpriced(item) == ~Amount(item, "annualCost") /\ ~Amount(item, "annualCostPerSeat")

PerSeatOnly(item) == Amount(item, "annualCostPerSeat") /\ ~Has(item, "annualCost")

C20_AtMostMaxPerWindow ==
  \A ip \in Ips :
    /\ admitted[ip] <= RATE_LIMIT_MAX_REQUESTS
    /\ ip \in DOMAIN rateLimitStore
         => rateLimitStore[ip].count <= RATE_LIMIT_MAX_REQUESTS

\* a request is rejected on a full window while an admitted handler of
\* the same process is still at work
C20_Witness ==
  /\ verdict.limited
  /\ admitted[verdict.ip] = RATE_LIMIT_MAX_REQUESTS
  /\ now < rateLimitStore[verdict.ip].resetAt
  /\ \E g, h \in Handlers : handlers[g] = "admitted" /\ handlers[h] = "rejected"

\* the least number of whole seconds that covers ms milliseconds
SecondsCovering(ms) ==
  CHOOSE n \in 0..(ms + 1) : n * 1000 >= ms /\ \A m \in 0..(ms + 1) : m * 1000 >= ms => n <= m

\* handler h answers 429 in this step
Rejects(h) == handlers[h] = "idle" /\ handlers'[h] = "rejected"

\* C21: a request the rate limiter rejects gets retryAfterSeconds =
\* max(1, ceil((windowEnd - now) / 1000)), a value of at least 1 and at
\* most ceil(W / 1000); the 429 response carries it in Retry-After; and
\* the rejection leaves the store (count and windowEnd of the key) as it
\* was.
C21_RetryAfter ==
  [][\A h \in Handlers :
       Rejects(h) =>
         LET entry == rateLimitStore[verdict'.ip]
             wait == SecondsCovering(entry.resetAt - now)
         IN /\ verdict'.retryAfterSeconds = (IF wait < 1 THEN 1 ELSE wait)
            /\ verdict'.retryAfterSeconds >= 1
            /\ verdict'.retryAfterSeconds <= SecondsCovering(RATE_LIMIT_WINDOW_MS)
            /\ verdict'.status = 429
            /\ verdict'.retryAfter = String(verdict'.retryAfterSeconds)
            /\ rateLimitStore' = rateLimitStore]_vars

\* a rejection with more than a second of the window left: the remaining
\* time is not a whole number of seconds and is rounded up to 2
C21_Witness ==
  /\ verdict.limited
  /\ verdict.status = 429
  /\ verdict.retryAfter = "2"
  /\ rateLimitStore[verdict.ip].resetAt - now > 1000
  /\ rateLimitStore[verdict.ip].resetAt - now < 2000
  /\ \E h \in Handlers : handlers[h] = "rejected"

\* handler h takes up a request in this step
Arrives(h) == handlers[h] = "idle" /\ handlers'[h] # "idle"

\* C22: once now >= windowEnd for a key, the next request for that key is
\* admitted and its entry is overwritten with count 1 and windowEnd =
\* now + W, whatever the stale count was.
C22_WindowResets ==
  [][\A h \in Handlers :
       (/\ Arrives(h)
        /\ verdict'.ip \in DOMAIN rateLimitStore
        /\ now >= rateLimitStore[verdict'.ip].resetAt)
       => /\ ~verdict'.limited
          /\ handlers'[h] = "admitted"
          /\ rateLimitStore'[verdict'.ip] =
               [count |-> 1, resetAt |-> now + RATE_LIMIT_WINDOW_MS]]_vars

\* the only client there has been was rejected on a full window, the
\* rejected handler has not answered yet, and at the first tick at or
\* after the end of that window a request of the client is admitted
\* into a new window
C22_Witness ==
  /\ ~verdict.limited
  /\ \E g, h \in Handlers : handlers[g] = "rejected" /\ handlers[h] = "admitted"
  /\ DOMAIN rateLimitStore = {verdict.ip}
  /\ \A ip \in Ips \ {verdict.ip} : admitted[ip] = 0
  /\ now >= RATE_LIMIT_WINDOW_MS
  /\ now - RATE_LIMIT_WINDOW_MS < 500
  /\ rateLimitStore[verdict.ip] = [count |-> 1, resetAt |-> now + RATE_LIMIT_WINDOW_MS]

\* ---------------------------------------------------------------------
\* Properties of the error paths
\* ---------------------------------------------------------------------

\* the replies with which a collect turn asks for the next fact
NextPrompts ==
  {"tell_subscriptions", "ask_plans", "ask_prices", "ask_more", "plan_guess", "which_mid_plan"}

\* C24: when the extraction call of a collect turn fails, the turn does
\* what it does on an extraction without line items: the same states are
\* persisted and the same reply is given, that reply is a next prompt and
\* not an error, and every stored line item is still there, in order.
C24_FailedExtractionIsEmptyExtraction ==
  [][(turn'.op = "chat" /\ turn'.extraction = "failed") =>
       /\ turn'.reply =
            CollectMerge(loadIntakeState, Trim(turn'.message),
                         [ok |-> TRUE, lineItems |-> <<>>]).reply
       /\ turn'.writes =
            CollectMerge(loadIntakeState, Trim(turn'.message),
                         [ok |-> TRUE, lineItems |-> <<>>]).writes
       /\ turn'.reply \in NextPrompts
       /\ ToolsOf(intake'.lineItems) = ToolsOf(intake.lineItems)]_vars

\* the extraction failed on a turn of a session that had a line item
\* stored, and the turn went on to ask for what is missing
C24_Witness ==
  /\ turn.op = "chat"
  /\ turn.extraction = "failed"
  /\ turn.startStage = "collect"
  /\ turn.reply \in {"ask_plans", "ask_prices"}
  /\ Len(intake.lineItems) > 0

\* C26: a chat turn writes the intake state at most once: no turn hands
\* two or more states to persistIntakeState.
C26_AtMostOneWritePerTurn ==
  turn.op = "chat" => Len(turn.writes) <= 1

\* ---------------------------------------------------------------------
\* Properties of the tier suggestions
\* ---------------------------------------------------------------------

\* mapTierSuggestions was applied to "mid tier for Figma and Notion" with
\* both tools missing a plan
FigmaAndNotion ==
  /\ call.fn = "mapTierSuggestions"
  /\ call.message = "mid tier for Figma and Notion"
  /\ call.tools = <<"Figma", "Notion">>

SuggestedFor(tool) ==
  IF tool \in DOMAIN call.suggestions THEN call.suggestions[tool] ELSE <<>>

\* C29 as stated: on that message Figma, which has 4 plan options, gets
\* exactly one suggestion and Notion gets a pair.
C29_FigmaGetsOneSuggestion ==
  FigmaAndNotion =>
    /\ Len(planOptionsForTool("Figma")) = 4
    /\ Len(SuggestedFor("Figma")) = 1
    /\ Len(SuggestedFor("Notion")) = 2

\* C29: on that message Figma and Notion, which both have 4 plan options,
\* each get the two plans next to the midpoint of their list.
C29_FigmaAndNotionGetMiddlePairs ==
  FigmaAndNotion =>
    /\ Len(planOptionsForTool("Figma")) = 4
    /\ Len(planOptionsForTool("Notion")) = 4
    /\ call.suggestions =
         [t \in {"Figma", "Notion"} |->
            IF t = "Figma" THEN <<"Professional", "Organization">>
            ELSE <<"Plus", "Business">>]

C29_Witness ==
  /\ FigmaAndNotion
  /\ SuggestedFor("Figma") = <<"Professional", "Organization">>
  /\ SuggestedFor("Notion") = <<"Plus", "Business">>

\* C30: for an intent and a plan list of length n >= 1 the suggestion is
\* the last plan for top, the first plan for low, and for mid the plan at
\* (0-based) index floor(n/2) when n is odd and the two plans next to the
\* midpoint when n is even; it is empty only when n = 0; and every
\* suggestion list mapTierSuggestions returns for storing in
\* planSuggestions has length 1 or 2.
C30_SuggestionByIntent ==
  /\ call.fn = "suggestionForIntent" =>
       LET n == Len(call.plans)
       IN /\ (call.result = <<>>) <=> (n = 0)
          /\ (n >= 1 /\ call.intent = "top") => call.result = <<call.plans[n]>>
          /\ (n >= 1 /\ call.intent = "low") => call.result = <<call.plans[1]>>
          /\ (n >= 1 /\ call.intent = "mid" /\ n % 2 = 1)
               => call.result = <<call.plans[(n \div 2) + 1]>>
          /\ (n >= 1 /\ call.intent = "mid" /\ n % 2 = 0)
               => call.result = <<call.plans[n \div 2], call.plans[(n \div 2) + 1]>>
  /\ call.fn = "mapTierSuggestions" =>
       \A t \in DOMAIN call.suggestions : Len(call.suggestions[t]) \in {1, 2}

\* a message that gives Zoom the first of its five plans and Linear, of
\* which discovery registered two plans, both of them
C30_Witness ==
  /\ call.fn = "mapTierSuggestions"
  /\ DOMAIN call.suggestions = {"Zoom", "Linear"}
  /\ call.suggestions["Zoom"] = <<"Basic">>
  /\ call.suggestions["Linear"] = <<"Free", "Plus">>
  /\ Len(planOptionsForTool("Zoom")) = 5

\* ---------------------------------------------------------------------
\* Properties of the generation call
\* ---------------------------------------------------------------------

\* C28: every call to the generation service is bounded by a timeout: a
\* call that waits for the service leads to a reply of the turn, also
\* when the service never answers.
C28_CallLeadsToReply ==
  (gen.phase \in {"invoke", "repair"}) ~> (gen.phase = "replied")

\* a step that is part of a request answered 429 or 400: its arrival at
\* the limiter, its refusal, and the return of its response
RefusedStep(h) ==
  /\ handlers'[h] # handlers[h]
  /\ \/ handlers'[h] \in {"admitted", "rejected", "answered"}
     \/ handlers[h] \in {"rejected", "answered"}

\* C23: a request answered 429 by the limiter or 400 for its body changes
\* no session state: none of its steps creates a session, appends a
\* message or writes an intake state
C23_RefusedRequestsMutateNothing ==
  [][\A h \in Handlers :
       RefusedStep(h) => db' = db /\ intake' = intake /\ stageCol' = stageCol]_vars

\* with a store configured, a request stands answered 400 after another
\* was answered 429, and the store holds no session and no message
C23_Witness ==
  /\ prisma
  /\ verdict.limited
  /\ \E h \in Handlers : handlers[h] = "answered" /\ inflight[h].status = 400
  /\ db = NoRows
  /\ intake = EmptyIntake

\* replies a turn can give from the message alone
MessageOnlyReplies == {o.reply : o \in OpenConversation} \cup {"off_topic", "error_500"}

\* C25: with no store configured, no step of a chat turn loads, saves or
\* appends anything; the turn fails only when the topic gate's call
\* fails, and otherwise replies from the message alone
C25_NoStoreNoSession ==
  [][~prisma =>
       /\ db' = db /\ intake' = intake /\ stageCol' = stageCol
       /\ \A h \in Handlers :
            /\ inflight'[h].read = <<>>
            /\ inflight'[h].pending = <<>>
            /\ inflight'[h].wrote = <<>>
            /\ handlers'[h] = "working" =>
                 /\ inflight'[h].reply \in MessageOnlyReplies
                 /\ inflight'[h].status = 500 <=> inflight'[h].reply = "error_500"]_vars

\* without a store two turns stand answered side by side, one from the
\* open conversation and one by the topic gate, and nothing was stored
C25_Witness ==
  /\ ~prisma
  /\ db = NoRows
  /\ \E h, g \in Handlers :
       /\ handlers[h] = "working" /\ inflight[h].status = 200 /\ inflight[h].reply = "brief"
       /\ handlers[g] = "working" /\ inflight[g].status = 200
       /\ inflight[g].reply = "off_topic"

\* the intake state a handler stored with its latest persistIntakeState
LastWrote(h) == inflight[h].wrote[Len(inflight[h].wrote)]

\* C27: turns running side by side on one session are not kept apart by
\* any version check: every persistIntakeState stores the state of its
\* turn whatever was stored since the turn read, and the stage column
\* always agrees with the stage of the stored document
C27_LaterWriteWins ==
  [][/\ stageCol' = intake'.stage
     /\ \A h \in Handlers :
          inflight'[h].wrote # inflight[h].wrote /\ inflight'[h].wrote # <<>>
            => intake' = inflight'[h].wrote[Len(inflight'[h].wrote)]]_vars

\* two turns read the same intake state and both wrote: the stored state
\* is that of the later writer and lacks a tool the earlier one merged
C27_Witness ==
  \E h, g \in Handlers :
    /\ h # g
    /\ handlers[h] = "working" /\ handlers[g] = "working"
    /\ inflight[h].read = inflight[g].read
    /\ inflight[h].wrote # <<>> /\ inflight[g].wrote # <<>>
    /\ inflight[h].pending = <<>> /\ inflight[g].pending = <<>>
    /\ intake = LastWrote(g)
    /\ stageCol = intake.stage
    /\ \E i \in 1..Len(LastWrote(h).lineItems) :
         \A j \in 1..Len(intake.lineItems) :
           intake.lineItems[j].tool # LastWrote(h).lineItems[i].tool

\* the requests of a call stay within their bounds: at most two models,
\* at most retries + 1 attempts on a model, at most one repair request
\* per attempt, and a value is returned only when an answer parsed
RequestsBounded ==
  /\ Len(gen.models) <= 2
  /\ gen.attempt <= retries
  /\ gen.repairs <= 1
  /\ gen.requests <= Len(gen.models) * (retries + 1) * 2
  /\ gen.phase = "returned" => gen.lastAnswer = "json"

\* C34: a generateJson call always ends, by returning a value that parsed
\* or by throwing, and until then sends a bounded number of requests: at
\* most retries + 1 attempts a model, one repair request an attempt, two
\* models
C34_CallEndsWithinBounds ==
  /\ []RequestsBounded
  /\ (gen.phase \in {"invoke", "repair"}) ~> (gen.phase \in {"returned", "thrown", "replied"})

\* the answers after which the call sent a further attempt to the same
\* model
RetriedAnswers == {f[1] : f \in {x \in gen.follows : x[2] = "attempt"}}

\* C35: a further attempt on the same model follows only a transient
\* failure (output that did not parse; no timeout exists in the code): a
\* missing credential throws before any request, a 404 is never followed
\* by an attempt on the same model, only by the one fallback to the
\* default model, and no other request failure is followed by an attempt
C35_RetriesOnlyAfterTransientFailures ==
  /\ gen.lastError = "key_missing" => gen.requests = 0 /\ gen.phase \in {"thrown", "replied"}
  /\ "http404" \notin RetriedAnswers
  /\ \A f \in gen.follows : f[2] = "fallback" => f[1] = "http404"
  /\ gen.modelIndex <= 2
  /\ RetriedAnswers \subseteq {"malformed", "violation"}

\* the parts of C35 about the credential and the 404
CredentialAndNotFoundNotRetried ==
  /\ gen.lastError = "key_missing" => gen.requests = 0 /\ gen.phase \in {"thrown", "replied"}
  /\ "http404" \notin RetriedAnswers
  /\ \A f \in gen.follows : f[2] = "fallback" => f[1] = "http404"
  /\ gen.modelIndex <= 2

\* ---------------------------------------------------------------------
\* Properties of the tier statements of a message
\* ---------------------------------------------------------------------

\* every match of tierRegex in s from position from on, left to right
RECURSIVE TierMatches(_, _)
TierMatches(s, from) ==
  IF TierStarts(s, from) = {} THEN <<>>
  ELSE <<TierMatchAt(s, Least(TierStarts(s, from)))>>
         \o TierMatches(s, TierMatchAt(s, Least(TierStarts(s, from))).next)

\* the intents of the statements of the message that name the tool
StatedIntents(matches, tool) ==
  {toIntent(matches[i].keyword) : i \in
     {j \in 1..Len(matches) :
        /\ ~IsRestTarget(matches[j].target)
        /\ \E k \in 1..Len(SplitTarget(matches[j].target)) :
             \/ Includes(SplitTarget(matches[j].target)[k], ToLower(tool))
             \/ Includes(ToLower(tool), SplitTarget(matches[j].target)[k])}}

\* the intents of the statements of the message about the rest
RestIntents(matches) ==
  {toIntent(matches[i].keyword) : i \in
     {j \in 1..Len(matches) : IsRestTarget(matches[j].target)}}

\* the suggestion a tool is due: by its own statement when one names it,
\* by the statement about the rest otherwise
DueSuggestions(matches, tool) ==
  {suggestionForIntent(planOptionsForTool(tool), intent) :
     intent \in IF StatedIntents(matches, tool) # {} THEN StatedIntents(matches, tool)
                ELSE RestIntents(matches)}

\* the message of the call holds a statement about the rest and at least
\* one statement that names tools
RestAndNamed(matches) ==
  /\ RestIntents(matches) # {}
  /\ \E j \in 1..Len(matches) : ~IsRestTarget(matches[j].target)

\* C31: when a message holds a statement about the rest together with
\* statements naming tools, in either order, every missing tool that is
\* named gets the suggestion of its own statement's intent and every other
\* missing tool that of the rest intent; the tools of the result are those
\* with a non-empty suggestion
C31_NamedToolsGetTheirOwnIntent ==
  (call.fn = "mapTierSuggestions" /\ RestAndNamed(TierMatches(ToLower(call.message), 1))) =>
    /\ \A i \in 1..Len(call.tools) :
         SuggestedFor(call.tools[i])
           \in DueSuggestions(TierMatches(ToLower(call.message), 1), call.tools[i])
    /\ DOMAIN call.suggestions =
         {call.tools[i] : i \in {j \in 1..Len(call.tools) : SuggestedFor(call.tools[j]) # <<>>}}

\* the same for the messages that state the rest last
RestLastNamedToolsGetTheirOwnIntent ==
  (/\ call.fn = "mapTierSuggestions"
   /\ RestAndNamed(TierMatches(ToLower(call.message), 1))
   /\ IsRestTarget(Last(TierMatches(ToLower(call.message), 1)).target)) =>
    \A i \in 1..Len(call.tools) :
      SuggestedFor(call.tools[i])
        \in DueSuggestions(TierMatches(ToLower(call.message), 1), call.tools[i])

\* ---------------------------------------------------------------------
\* Properties of the topic gate
\* ---------------------------------------------------------------------

\* the turn starts in a stage, or on a list and a message, for which the
\* topic classifier is not asked
BypassCase(stage, lineItems, userMessage) ==
  \/ stage \in {"confirm_more", "confirm_plans", "ready", "prompt_signin"}
  \/ /\ lineItems # <<>>
     /\ \/ MessageFacts[userMessage].isAffirmative
        \/ MessageFacts[userMessage].isNegative
        \/ MessageFacts[userMessage].looksLikeListRequest
        \/ MessageFacts[userMessage].normalized = "correct"

\* a chat request was handled in this step
Turned == turn' # turn /\ turn'.op \in {"chat", "demo"}

\* the classifier was asked in the turn, and what follows from its answer
Gated ==
  /\ turn'.classifier \in {"allowed", "disallowed", "failed"}
  /\ turn'.classifier # "allowed" => intake' = intake /\ stageCol' = stageCol
  /\ turn'.classifier = "disallowed" => turn'.reply = "off_topic"

Discovering(name) ==
  {h \in Handlers : discoveries[h].phase # "none" /\ normalizeTool(discoveries[h].tool) = name}

\* C33: under any interleaving of ensureTool calls, a normalized name has
\* at most one discovery and at most one research call under way; every
\* caller waiting for the name waits for that one discovery, which is the
\* one kept in inFlight; and inFlight holds an entry exactly for the
\* discoveries whose finally callback has not run, however they ended
C33_OneDiscoveryPerName ==
  /\ \A h \in Handlers : Cardinality(Discovering(normalizeTool(discoveries[h].tool))) <= 1
  /\ \A h \in Handlers :
       discoveries[h].awaits # 0 =>
         /\ normalizeTool(discoveries[h].tool) \in DOMAIN inFlight
         /\ inFlight[normalizeTool(discoveries[h].tool)] = discoveries[h].awaits
         /\ discoveries[discoveries[h].awaits].phase # "none"
         /\ normalizeTool(discoveries[discoveries[h].awaits].tool)
              = normalizeTool(discoveries[h].tool)
  /\ DOMAIN inFlight =
       {normalizeTool(discoveries[h].tool) : h \in {g \in Handlers : discoveries[g].phase # "none"}}

\* a second caller, naming the tool in another spelling, waits for the
\* discovery the first one started while its research call is out
C33_Witness ==
  \E h, g \in Handlers :
    /\ h # g
    /\ discoveries[h].phase = "discovering"
    /\ discoveries[g].phase = "none"
    /\ discoveries[g].awaits = h
    /\ discoveries[g].tool # discoveries[h].tool
    /\ DOMAIN inFlight = {"linear"}

\* ---------------------------------------------------------------------
\* Properties of the plan confirmation
\* ---------------------------------------------------------------------

\* some reply of the user makes the turn store a stage other than
\* confirm_plans
WayOut ==
  \E message \in PlanMessages :
    \E r \in ChatOutcomes(loadIntakeState, userId, Trim(message)) :
      /\ r.out.writes # <<>>
      /\ r.out.writes[Len(r.out.writes)].stage # "confirm_plans"

\* C36: the dialogue cannot get stuck in confirm_plans: in every state
\* of that stage some reply of the user leads to another stage
C36_ConfirmPlansHasWayOut ==
  stageCol = "confirm_plans" => WayOut

\* with at most one two-plan list stored there is a reply that leads on
OneOpenChoiceHasWayOut ==
  (stageCol = "confirm_plans" /\ Cardinality(TwoOptionTools(intake)) <= 1) => WayOut

\* a chat turn that found confirm_plans stored another stage
LeavesConfirmPlans ==
  /\ turn'.op = "chat" /\ turn'.startStage = "confirm_plans"
  /\ stageCol = "confirm_plans" /\ stageCol' # "confirm_plans"

\* the items without a plan whose stored suggestion list has one option
SingleSuggested(st) ==
  {i \in 1..Len(st.lineItems) :
     /\ NoPlan(st.lineItems[i])
     /\ st.lineItems[i].tool \in DOMAIN st.planSuggestions
     /\ Len(st.planSuggestions[st.lineItems[i].tool]) = 1}

\* C37: on every exit from confirm_plans, by acceptance or by a
\* plan-name reply, each tool without a plan whose suggestion list had
\* exactly one option is given that option before planSuggestions is
\* cleared
C37_ExitAppliesSingleSuggestions ==
  [][LeavesConfirmPlans
     => \A i \in SingleSuggested(intake) :
          /\ Len(intake'.lineItems) >= i
          /\ Has(intake'.lineItems[i], "plan")
          /\ intake'.lineItems[i].plan
               = intake.planSuggestions[intake.lineItems[i].tool][1]]_vars

\* on the exit by acceptance the single suggestions are applied
AcceptanceAppliesSingleSuggestions ==
  [][(LeavesConfirmPlans /\ Heard(turn').normalized \in {"correct", "yes"})
     => \A i \in SingleSuggested(intake) :
          /\ Len(intake'.lineItems) >= i
          /\ Has(intake'.lineItems[i], "plan")
          /\ intake'.lineItems[i].plan
               = intake.planSuggestions[intake.lineItems[i].tool][1]]_vars

\* the turn replied with the question whether that is all or whether to
\* add another subscription (route.ts 889, 917, 1119, 1249, 1283)
AsksForMore == turn.op = "chat" /\ turn.reply = "ask_more"

\* C38: whenever a turn's reply asks whether that is all or whether to
\* add another subscription, the stage stored at the end of the turn is
\* confirm_more
C38_AddMoreQuestionStoresConfirmMore ==
  AsksForMore => stageCol = "confirm_more"

\* outside confirm_plans the question is sent with confirm_more stored
AddMoreQuestionOutsidePlansStoresConfirmMore ==
  (AsksForMore /\ turn.startStage # "confirm_plans") => stageCol = "confirm_more"

\* the stored suggestions name plan-less line items and carry one or two
\* options each
SuggestionsWellFormed ==
  \A t \in DOMAIN intake.planSuggestions :
    /\ Len(intake.planSuggestions[t]) \in 1..2
    /\ \E i \in 1..Len(intake.lineItems) :
         intake.lineItems[i].tool = t /\ NoPlan(intake.lineItems[i])

\* C39: planSuggestions is non-empty if and only if the stage is
\* confirm_plans; while non-empty every key is a line item without a
\* plan and every list has one or two options; it is empty again after
\* every exit from confirm_plans
C39_SuggestionsOnlyInConfirmPlans ==
  /\ (DOMAIN intake.planSuggestions # {}) <=> (intake.stage = "confirm_plans")
  /\ SuggestionsWellFormed

\* a chat turn never stores suggestions with another stage
ChatStoresSuggestionsOnlyInConfirmPlans ==
  [][(turn'.op = "chat" /\ turn'.writes # <<>>)
     => /\ (DOMAIN intake'.planSuggestions # {}) <=> (intake'.stage = "confirm_plans")
        /\ SuggestionsWellFormed']_vars

\* ---------------------------------------------------------------------
\* Properties of the writers of a session
\* ---------------------------------------------------------------------

\* C40: after every write by any writer (chat turn, regenerate request,
\* sign-in completion, demo mode), under any interleaving of them, the
\* stage column equals the stage stored in the intake document, so
\* loading the session yields the document as stored
C40_StageColumnEqualsDocumentStage ==
  /\ stageCol = intake.stage
  /\ loadIntakeState = intake

\* the regenerate request stored its brief from a read that a chat turn
\* had overtaken
C40_Witness ==
  /\ reads.stale = "regenerate" /\ ~demoMode
  /\ stageCol = "briefed" /\ intake.stage = "briefed"

====
